---- MODULE Spec2Model ----
(***************************************************************************)
(* Model of the streaming protocol adapter of vscode-llama-copilot:        *)
(*   - streamChatCompletion's SSE parse loop (llamaClient),                *)
(*   - the ThinkingTokensTracker and the turn classifier (thinkingTokens), *)
(*   - convertVSCodeMessagesToOpenAI (llamaClient),                        *)
(*   - LlamaCopilotChatProvider.provideLanguageModelChatResponse and       *)
(*     makeFollowUpRequest (provider).                                     *)
(* SpecStream drives the parse loop over byte streams cut into arbitrary   *)
(* transport chunks; SpecChat drives the provider over chat requests.      *)
(***************************************************************************)
EXTENDS Integers, Sequences, FiniteSets, TLC

VARIABLES
    \* ---- streamChatCompletion (parse loop) ----
    stream,                 \* the bytes the server sends on the response body
    pos,                    \* number of bytes reader.read() has delivered
    decoder,                \* TextDecoder: bytes of an incomplete character
    buffer,                 \* text of the incomplete last line
    toolCallAccumulators,   \* insertion-ordered Map index -> accumulator
    events,                 \* events yielded by the generator, in order
    seen,                   \* history: chunks that JSON.parse returned, in order
    reader,                 \* "none" | "locked" | "released"
    spc,                    \* "reading" | "done" | "returned" | "abandoned" | "threw"
    \* ---- LlamaCopilotChatProvider ----
    tokens,                 \* ThinkingTokensTracker.tokens
    pc,                     \* position of provideLanguageModelChatResponse
    call,                   \* the arguments and locals of the running call
    rulesTool,              \* this.rulesTool && this.ruleManager are set
    cancelled,              \* token.isCancellationRequested
    reported,               \* progress.report calls of the running call
    requests,               \* streaming requests issued by the running call
    nCalls,                 \* number of calls made so far
    sinceNewTurn,           \* history: call ids whose thinking was stored since
                            \* the last request with a new user message
    \* ---- LlamaCopilotChatProvider.provideTokenCount ----
    counting,               \* the running provideTokenCount call
    \* ---- contextBuilder ----
    truncation,             \* a call of the two truncate functions and its results
    infill,                 \* a call of buildInfillContext and its result
    \* ---- InlineCompletionProvider ----
    completions,            \* the provideInlineCompletionItems calls, in order of arrival
    \* ---- llamaClient message conversion ----
    conversion,             \* a call of convertVSCodeMessagesToOpenAI and the way back
    \* ---- modelInfo ----
    routing,                \* the model list given to the editor, one request for a listed id
    \* ---- modelInfo overrides ----
    merging,                \* getMergedModelConfig for one request and the request built from it
    \* ---- errorUtils ----
    normalizing,            \* a call of normalizeFetchError and its result
    \* ---- editor conversations ----
    sessions,               \* the conversations the editor runs against the one provider
    \* ---- one turn of a conversation ----
    taken,                  \* the events the for-await loops of a call have handled
    \* ---- thinkingTokens ----
    lookup,                 \* a call of ThinkingTokensTracker.getForMessage and its result
    \* ---- config ----
    endpoint                \* a configured endpoint URL and its normalisations

streamVars == <<stream, pos, decoder, buffer, toolCallAccumulators, events,
                seen, reader, spc>>
chatVars == <<tokens, rulesTool, pc, call, cancelled, reported, requests, nCalls,
              sinceNewTurn>>
countVars == <<counting>>
infillVars == <<truncation, infill>>
inlineVars == <<completions>>
convertVars == <<conversion>>
routingVars == <<routing>>
mergeVars == <<merging>>
fetchVars == <<normalizing>>
sessionsVars == <<sessions>>
turnVars == <<taken>>
lookupVars == <<lookup>>
urlVars == <<endpoint>>
vars == <<streamVars, chatVars, countVars, infillVars, inlineVars,
          convertVars, routingVars, mergeVars, fetchVars, sessionsVars,
          turnVars, lookupVars, urlVars>>

\* what the actions of one specification leave alone
exceptStream == <<chatVars, countVars, infillVars, inlineVars, convertVars,
                  routingVars, mergeVars, fetchVars, sessionsVars, turnVars,
                  lookupVars, urlVars>>
exceptChat == <<streamVars, countVars, infillVars, inlineVars, convertVars,
                routingVars, mergeVars, fetchVars, sessionsVars, turnVars,
                lookupVars, urlVars>>
exceptCount == <<streamVars, chatVars, infillVars, inlineVars, convertVars,
                 routingVars, mergeVars, fetchVars, sessionsVars, turnVars,
                 lookupVars, urlVars>>
exceptInfill == <<streamVars, chatVars, countVars, inlineVars, convertVars,
                  routingVars, mergeVars, fetchVars, sessionsVars, turnVars,
                  lookupVars, urlVars>>
exceptInline == <<streamVars, chatVars, countVars, infillVars, convertVars,
                  routingVars, mergeVars, fetchVars, sessionsVars, turnVars,
                  lookupVars, urlVars>>
exceptConvert == <<streamVars, chatVars, countVars, infillVars, inlineVars,
                   routingVars, mergeVars, fetchVars, sessionsVars, turnVars,
                   lookupVars, urlVars>>
exceptRouting == <<streamVars, chatVars, countVars, infillVars, inlineVars,
                   convertVars, mergeVars, fetchVars, sessionsVars, turnVars,
                   lookupVars, urlVars>>
exceptMerge == <<streamVars, chatVars, countVars, infillVars, inlineVars,
                 convertVars, routingVars, fetchVars, sessionsVars, turnVars,
                 lookupVars, urlVars>>
exceptFetch == <<streamVars, chatVars, countVars, infillVars, inlineVars,
                 convertVars, routingVars, mergeVars, sessionsVars, turnVars,
                 lookupVars, urlVars>>
exceptSessions == <<streamVars, countVars, infillVars, inlineVars,
                    convertVars, routingVars, mergeVars, fetchVars, turnVars,
                    lookupVars, urlVars>>
exceptTurn == <<streamVars, countVars, infillVars, inlineVars, convertVars,
                routingVars, mergeVars, fetchVars, sessionsVars, lookupVars,
                urlVars>>
exceptLookup == <<streamVars, chatVars, countVars, infillVars, inlineVars,
                  convertVars, routingVars, mergeVars, fetchVars,
                  sessionsVars, turnVars, urlVars>>
exceptUrl == <<streamVars, chatVars, countVars, infillVars, inlineVars,
               convertVars, routingVars, mergeVars, fetchVars, sessionsVars,
               turnVars, lookupVars>>

(***************************************************************************)
(* Bounds of the model.                                                    *)
(***************************************************************************)
MaxLines == 3
MaxChunk == 4
MaxCalls == 2           \* chat requests made to the provider, one after another
MaxEvents == 2          \* events the streams of one call yield in total
MaxTokens == 3          \* length of the tokens array of a /tokenize response
MaxText == 5            \* UTF-16 code units of a document
MaxShortText == 2       \* ... of a document that comes with every list of other files
MaxInputBytes == 10     \* largest inlineCompletionMaxInputBytes
MaxCompletions == 3     \* inline completion requests the editor makes
DebounceTicks == 2      \* inlineCompletionDebounceMs, in ticks of the clock
MaxEndpoints == 2       \* endpoints in llamaCopilot.endpoints
MaxValue == 2           \* distinct values a setting can have
MaxWords == 2           \* words of an error message
MaxCauses == 1          \* length of the cause chain of an error
MaxTurns == 3           \* calls the conversations make together
MaxParts == 3           \* parts of a message given to the conversion
MaxInitialEvents == 3   \* events of the initial stream of one turn
MaxUrlLen == 5          \* characters of a configured endpoint URL
MaxFollowUpEvents == 2  \* events of the follow-up stream of one turn

(***************************************************************************)
(* Sequence helpers.                                                       *)
(***************************************************************************)
RECURSIVE Filter(_, _)
Filter(s, S) ==
    IF s = <<>> THEN <<>>
    ELSE IF Head(s) \in S THEN <<Head(s)>> \o Filter(Tail(s), S)
    ELSE Filter(Tail(s), S)

StartsWith(s, p) == Len(s) >= Len(p) /\ SubSeq(s, 1, Len(p)) = p

Range(s) == {s[i] : i \in 1..Len(s)}

(***************************************************************************)
(* Bytes and characters.  A byte below 128 is a character of its own; the  *)
(* bytes 195 169 are the two-byte encoding of U+00E9.  Characters are      *)
(* code points.                                                            *)
(***************************************************************************)
NL == 10
SPACE == 32
SLASH == 47
CR == 13
LBRACE == 123
RBRACE == 125
REPLACEMENT == 65533

IsAscii(b) == b < 128
IsLead2(b) == b \in 194..223
IsCont(b) == b \in 128..191
CodePoint2(b1, b2) == (b1 - 192) * 64 + (b2 - 128)

\* UTF-8 encoding of one character (one- and two-byte characters).
EncodeChar(c) ==
    IF c < 128 THEN <<c>> ELSE <<192 + (c \div 64), 128 + (c % 64)>>

RECURSIVE EncodeText(_)
EncodeText(cs) ==
    IF cs = <<>> THEN <<>> ELSE EncodeChar(Head(cs)) \o EncodeText(Tail(cs))

\* The streaming decoder's step on one byte: the characters it completes
\* and the bytes of a character still incomplete.  A malformed sequence
\* decodes to U+FFFD.
DecodeFresh(b) ==
    IF IsAscii(b) THEN [chars |-> <<b>>, pending |-> <<>>]
    ELSE IF IsLead2(b) THEN [chars |-> <<>>, pending |-> <<b>>]
    ELSE [chars |-> <<REPLACEMENT>>, pending |-> <<>>]

DecodeByte(pending, b) ==
    IF pending = <<>> THEN DecodeFresh(b)
    ELSE IF IsCont(b)
         THEN [chars |-> <<CodePoint2(pending[1], b)>>, pending |-> <<>>]
    ELSE [chars |-> <<REPLACEMENT>> \o DecodeFresh(b).chars,
          pending |-> DecodeFresh(b).pending]

DecodeJoin(left, right) ==
    [chars |-> left.chars \o right.chars, pending |-> right.pending]

\* The decoder run over bytes[lo..hi], by halves.
RECURSIVE DecodeRange(_, _, _, _)
DecodeRange(pending, bytes, lo, hi) ==
    IF lo > hi THEN [chars |-> <<>>, pending |-> pending]
    ELSE IF lo = hi THEN DecodeByte(pending, bytes[lo])
    ELSE LET left == DecodeRange(pending, bytes, lo, (lo + hi) \div 2)
         IN  DecodeJoin(left,
                        DecodeRange(left.pending, bytes, (lo + hi) \div 2 + 1, hi))

\* decoder.decode(value, {stream: true}): the characters completed by the
\* bytes, and the bytes of a character still incomplete, kept for the next
\* call.
Decode(pending, bytes) == DecodeRange(pending, bytes, 1, Len(bytes))

\* Pieces of two adjacent texts: the last piece of the first continues in
\* the first piece of the second.
SplitJoin(a, b) ==
    SubSeq(a, 1, Len(a) - 1) \o <<a[Len(a)] \o b[1]>> \o Tail(b)

RECURSIVE SplitRange(_, _, _)
SplitRange(cs, lo, hi) ==
    IF lo > hi THEN << <<>> >>
    ELSE IF lo = hi
         THEN IF cs[lo] = NL THEN << <<>>, <<>> >> ELSE << <<cs[lo]>> >>
    ELSE SplitJoin(SplitRange(cs, lo, (lo + hi) \div 2),
                   SplitRange(cs, (lo + hi) \div 2 + 1, hi))

\* buffer.split('\n'): the pieces between newlines, the last one included.
Split(cs) == SplitRange(cs, 1, Len(cs))

IsSpace(c) == c \in {SPACE, CR, NL, 9}

RECURSIVE TrimStart(_)
TrimStart(s) ==
    IF s # <<>> /\ IsSpace(Head(s)) THEN TrimStart(Tail(s)) ELSE s

RECURSIVE TrimEnd(_)
TrimEnd(s) ==
    IF s # <<>> /\ IsSpace(s[Len(s)]) THEN TrimEnd(SubSeq(s, 1, Len(s) - 1)) ELSE s

Trim(s) == TrimEnd(TrimStart(s))

(***************************************************************************)
(* The wire format.  A data line is "data: " followed by a JSON object;    *)
(* the model writes the object as "{" members "}" with one character per   *)
(* member of choices[0]:                                                   *)
(*   X, U+00E9, U+FFFD  a character of delta.content                       *)
(*   R                  a character of delta.reasoning_content             *)
(*   A O C B D          an entry of delta.tool_calls (see ToolCallDelta)   *)
(*   T S L              finish_reason tool_calls, stop, length             *)
(*   N                  the choice has no delta object                     *)
(*   E                  choices is empty                                   *)
(* Any other text is not JSON and makes JSON.parse throw.                  *)
(***************************************************************************)
DataPrefix == <<100, 97, 116, 97, 58, 32>>          \* "data: "
DoneSentinel == <<91, 68, 79, 78, 69, 93>>          \* "[DONE]"

ContentChars == {88, 233, REPLACEMENT}
ReasoningChars == {82}
ToolChars == {65, 79, 67, 66, 68}
FinishChars == {84, 83, 76}
NoDeltaChar == 78
NoChoicesChar == 69
MemberChars ==
    ContentChars \cup ReasoningChars \cup ToolChars \cup FinishChars
        \cup {NoDeltaChar, NoChoicesChar}

FinishReason(c) ==
    CASE c = 84 -> "tool_calls"
      [] c = 83 -> "stop"
      [] c = 76 -> "length"
      [] OTHER -> "none"

\* One entry of delta.tool_calls; "" and <<>> stand for an absent field.
ToolCallDelta(c) ==
    CASE c = 65 -> [index |-> 0, id |-> "a", name |-> "f", arguments |-> <<>>]
      [] c = 79 -> [index |-> 0, id |-> "", name |-> "", arguments |-> <<LBRACE, 107>>]
      [] c = 67 -> [index |-> 0, id |-> "", name |-> "", arguments |-> <<RBRACE>>]
      [] c = 68 -> [index |-> 1, id |-> "b", name |-> "", arguments |-> <<>>]
      [] OTHER -> [index |-> 1, id |-> "b", name |-> "g",
                   arguments |-> <<LBRACE, RBRACE>>]

RECURSIVE MapDeltas(_)
MapDeltas(cs) ==
    IF cs = <<>> THEN <<>> ELSE <<ToolCallDelta(Head(cs))>> \o MapDeltas(Tail(cs))

RECURSIVE LastFinish(_)
LastFinish(cs) ==
    IF cs = <<>> THEN "none"
    ELSE IF cs[Len(cs)] \in FinishChars THEN FinishReason(cs[Len(cs)])
    ELSE LastFinish(SubSeq(cs, 1, Len(cs) - 1))

\* JSON.parse(dataStr) as OpenAIChatCompletionChunk.
IsJSONObject(s) ==
    /\ Len(s) >= 2
    /\ s[1] = LBRACE
    /\ s[Len(s)] = RBRACE
    /\ \A i \in 2..(Len(s) - 1) : s[i] \in MemberChars

ChunkOf(ok, body) ==
    [ok |-> ok,
     choices |-> ok /\ NoChoicesChar \notin Range(body),
     delta |-> ok /\ NoDeltaChar \notin Range(body),
     content |-> Filter(body, ContentChars),
     reasoning_content |-> Filter(body, ReasoningChars),
     tool_calls |-> MapDeltas(Filter(body, ToolChars)),
     finish_reason |-> LastFinish(body)]

JSONParseTrimmed(s) ==
    IF IsJSONObject(s) THEN ChunkOf(TRUE, SubSeq(s, 2, Len(s) - 1))
    ELSE ChunkOf(FALSE, <<>>)

JSONParse(dataStr) == JSONParseTrimmed(Trim(dataStr))

\* JSON.parse(accumulator.function.arguments): an object "{" k* "}", whose
\* value is its members; anything else throws.
ArgsValid(a) ==
    /\ Len(a) >= 2
    /\ a[1] = LBRACE
    /\ a[Len(a)] = RBRACE
    /\ \A i \in 2..(Len(a) - 1) : a[i] = 107

ArgsValue(a) == SubSeq(a, 2, Len(a) - 1)

(***************************************************************************)
(* Events yielded by streamChatCompletion.                                 *)
(***************************************************************************)
TextEvent(c) ==
    [type |-> "text", content |-> c, callId |-> "", name |-> "", input |-> <<>>]
ThinkingEvent(c) ==
    [type |-> "thinking", content |-> c, callId |-> "", name |-> "", input |-> <<>>]
ToolCallEvent(id, name, inp) ==
    [type |-> "toolCall", content |-> <<>>, callId |-> id, name |-> name,
     input |-> inp]

IsToolCall(e) == e.type = "toolCall"

(***************************************************************************)
(* The tool-call accumulators: a Map keyed by stream index, kept in        *)
(* insertion order, here a sequence of entries.                            *)
(***************************************************************************)
EmptyAccumulator(index) ==
    [index |-> index, id |-> "", name |-> "", arguments |-> <<>>]

HasIndex(accs, index) == \E i \in 1..Len(accs) : accs[i].index = index

\* Mutant of AppendArguments: the fragment replaces what was accumulated.
ReplaceArguments(old, fragment) == fragment

\* accumulator.function.arguments = (arguments || '') + fragment
AppendArguments(old, fragment) == old \o fragment

\* The body of `for (const toolCallDelta of delta.tool_calls)` for one delta.
UpdateEntry(a, d) ==
    [index |-> a.index,
     id |-> IF d.id # "" THEN d.id ELSE a.id,
     name |-> IF d.name # "" THEN d.name ELSE a.name,
     arguments |-> IF d.arguments # <<>>
                   THEN AppendArguments(a.arguments, d.arguments)
                   ELSE a.arguments]

UpdateEntries(accs, d) ==
    [i \in 1..Len(accs) |->
        IF accs[i].index = d.index THEN UpdateEntry(accs[i], d) ELSE accs[i]]

\* Mutant of ApplyDelta: the entry a delta touches moves to the end of the
\* Map, as if it were deleted and set again.
ApplyDeltaToEnd(accs, d) ==
    LET at == {i \in 1..Len(accs) : accs[i].index = d.index}
        old == IF at = {} THEN EmptyAccumulator(d.index)
               ELSE accs[CHOOSE i \in at : TRUE]
        others == SelectSeq(accs, LAMBDA a : a.index # d.index)
    IN  Append(others, UpdateEntry(old, d))

ApplyDelta(accs, d) ==
    UpdateEntries(IF HasIndex(accs, d.index) THEN accs
                  ELSE Append(accs, EmptyAccumulator(d.index)), d)

RECURSIVE ApplyDeltas(_, _)
ApplyDeltas(accs, ds) ==
    IF ds = <<>> THEN accs ELSE ApplyDeltas(ApplyDelta(accs, Head(ds)), Tail(ds))

\* The flush loop: one toolCall event per entry that has an id, a name and
\* arguments that parse; the other entries are dropped.
Flushable(a) ==
    a.id # "" /\ a.name # "" /\ a.arguments # <<>> /\ ArgsValid(a.arguments)

RECURSIVE FlushEvents(_)
FlushEvents(accs) ==
    IF accs = <<>> THEN <<>>
    ELSE (IF Flushable(Head(accs))
          THEN <<ToolCallEvent(Head(accs).id, Head(accs).name,
                               ArgsValue(Head(accs).arguments))>>
          ELSE <<>>) \o FlushEvents(Tail(accs))

\* Mutant of AfterFlush: the accumulators are not cleared.
KeepAfterFlush(accs) == accs

\* toolCallAccumulators.clear() after the flush loop.
AfterFlush(accs) == <<>>

IsFlushReason(r) == r \in {"tool_calls", "stop"}

\* The parse loop's state while it works through the lines of one chunk.
\*   accs, events: as the variables; seen: the chunks parsed so far;
\*   returned: the generator has executed `return` (finish_reason stop).
DeltaEvents(chunk) ==
    (IF chunk.content # <<>> THEN <<TextEvent(chunk.content)>> ELSE <<>>)
    \o (IF chunk.reasoning_content # <<>>
        THEN <<ThinkingEvent(chunk.reasoning_content)>> ELSE <<>>)

\* Mutant of HandleDelta: an entry is emitted as soon as it is complete.
HandleDeltaEager(st, chunk, accs) ==
    [accs |-> IF IsFlushReason(chunk.finish_reason) THEN <<>> ELSE accs,
     events |-> st.events \o DeltaEvents(chunk) \o FlushEvents(accs),
     seen |-> Append(st.seen, chunk),
     returned |-> chunk.finish_reason = "stop"]

\* The lines from `if (delta.content)` to the end of the try block; accs is
\* the accumulators after the chunk's tool-call deltas.
HandleDelta(st, chunk, accs) ==
    IF IsFlushReason(chunk.finish_reason)
    THEN [accs |-> AfterFlush(accs),
          events |-> st.events \o DeltaEvents(chunk) \o FlushEvents(accs),
          seen |-> Append(st.seen, chunk),
          returned |-> chunk.finish_reason = "stop"]
    ELSE [accs |-> accs,
          events |-> st.events \o DeltaEvents(chunk),
          seen |-> Append(st.seen, chunk),
          returned |-> FALSE]

\* Mutant of HandleChunk: a line that does not parse ends the generator, as
\* if the error of JSON.parse left the loop.
HandleChunkStrict(st, chunk) ==
    IF ~chunk.ok THEN [st EXCEPT !.returned = TRUE]
    ELSE IF ~chunk.choices \/ ~chunk.delta
         THEN [st EXCEPT !.seen = Append(@, chunk)]
    ELSE HandleDelta(st, chunk, ApplyDeltas(st.accs, chunk.tool_calls))

HandleChunk(st, chunk) ==
    IF ~chunk.ok THEN st
    ELSE IF ~chunk.choices \/ ~chunk.delta
         THEN [st EXCEPT !.seen = Append(@, chunk)]
    ELSE HandleDelta(st, chunk, ApplyDeltas(st.accs, chunk.tool_calls))

HandleData(st, dataStr) ==
    IF dataStr = <<>> \/ dataStr = DoneSentinel THEN st
    ELSE HandleChunk(st, JSONParseTrimmed(dataStr))

\* The body of `for (const line of lines)`.
ProcessLine(st, line) ==
    IF st.returned \/ ~StartsWith(line, DataPrefix) THEN st
    ELSE HandleData(st, Trim(SubSeq(line, Len(DataPrefix) + 1, Len(line))))

RECURSIVE ProcessLines(_, _)
ProcessLines(st, lines) ==
    IF lines = <<>> THEN st
    ELSE ProcessLines(ProcessLine(st, Head(lines)), Tail(lines))

\* The loop over the complete lines when the consumer returns the generator
\* at the yield of event number `limit`: the line that yields it is the last
\* one touched, and later events of that line are never yielded.
RECURSIVE ProcessUntil(_, _, _)
ProcessUntil(st, lines, limit) ==
    IF lines = <<>> \/ st.returned THEN st
    ELSE LET after == ProcessLine(st, Head(lines))
         IN  IF Len(after.events) >= limit
             THEN [after EXCEPT !.events = SubSeq(@, 1, limit)]
             ELSE ProcessUntil(after, Tail(lines), limit)

LoopState(pending, buf, after) ==
    [decoder |-> pending, buffer |-> buf, accs |-> after.accs,
     events |-> after.events, seen |-> after.seen, returned |-> after.returned]

\* `lines = buffer.split('\n'); buffer = lines.pop() || ''`, then the loop
\* over the complete lines.
ParsePieces(st, pending, pieces) ==
    LoopState(pending, pieces[Len(pieces)],
              ProcessLines([accs |-> st.accs, events |-> st.events,
                            seen |-> st.seen, returned |-> FALSE],
                           SubSeq(pieces, 1, Len(pieces) - 1)))

\* Mutant of ParseDecoded: decode(value) without {stream: true}, which ends
\* every chunk's incomplete character as U+FFFD and carries nothing over.
ParseDecodedNoStream(st, dec) ==
    ParsePieces(st, <<>>,
                Split(st.buffer \o dec.chars
                        \o (IF dec.pending # <<>> THEN <<REPLACEMENT>> ELSE <<>>)))

ParseDecoded(st, dec) ==
    ParsePieces(st, dec.pending, Split(st.buffer \o dec.chars))

\* One iteration of `while (true)` on a chunk `value`: decode, split, keep
\* the incomplete last line, process the complete lines.
ParseChunk(st, value) == ParseDecoded(st, Decode(st.decoder, value))

ParserStart ==
    [decoder |-> <<>>, buffer |-> <<>>, accs |-> <<>>, events |-> <<>>,
     seen |-> <<>>, returned |-> FALSE]

(***************************************************************************)
(* The streams the server sends: up to MaxLines events, each a data line   *)
(* followed by a blank line; the last line may lack its line end.          *)
(***************************************************************************)
DataLine(members) == DataPrefix \o <<LBRACE>> \o members \o <<RBRACE>>

LineCatalog ==
    { DataLine(<<88, 233, 82>>),      \* text "Xé" and thinking "R"
      DataLine(<<65, 79>>),           \* index 0: id, name; then arguments "{k"
      DataLine(<<67>>),               \* index 0: arguments "}"
      DataLine(<<67, 84>>),           \* the same, with finish_reason tool_calls
      DataLine(<<66>>),               \* index 1: id, name, arguments "{}"
      DataLine(<<84>>),               \* finish_reason tool_calls
      DataLine(<<83>>),               \* finish_reason stop
      DataLine(<<78, 84>>) }          \* finish_reason tool_calls, no delta

LineSeqs == UNION {[1..n -> LineCatalog] : n \in 1..MaxLines}

RECURSIVE EncodeLines(_)
EncodeLines(ls) ==
    IF ls = <<>> THEN <<>>
    ELSE EncodeText(Head(ls)) \o <<NL, NL>> \o EncodeLines(Tail(ls))

Streams ==
    LET full == {EncodeLines(ls) : ls \in LineSeqs}
    IN  full \cup {SubSeq(s, 1, Len(s) - 2) : s \in full}

(***************************************************************************)
(* streamChatCompletion's parse loop as a state machine.                   *)
(***************************************************************************)
InitStreamVars ==
    /\ stream \in Streams
    /\ pos = 0
    /\ decoder = <<>>
    /\ buffer = <<>>
    /\ toolCallAccumulators = <<>>
    /\ events = <<>>
    /\ seen = <<>>
    /\ reader = "locked"
    /\ spc = "reading"

IdleStreamVars ==
    /\ stream = <<>>
    /\ pos = 0
    /\ decoder = <<>>
    /\ buffer = <<>>
    /\ toolCallAccumulators = <<>>
    /\ events = <<>>
    /\ seen = <<>>
    /\ reader = "none"
    /\ spc = "done"

LoopVars ==
    [decoder |-> decoder, buffer |-> buffer, accs |-> toolCallAccumulators,
     events |-> events, seen |-> seen]

\* The reader's lock does not leave the generator held.
KeepLock == "locked"

\* finally { reader.releaseLock() }
ReleaseLock == "released"

SetLoopVars(st) ==
    /\ decoder' = st.decoder
    /\ buffer' = st.buffer
    /\ toolCallAccumulators' = st.accs
    /\ events' = st.events
    /\ seen' = st.seen
    /\ spc' = IF st.returned THEN "returned" ELSE "reading"
    /\ reader' = IF st.returned THEN ReleaseLock ELSE reader

\* reader.read() delivers the next n bytes; the loop body runs on them.
ReadChunk(n) ==
    /\ spc = "reading"
    /\ pos + n <= Len(stream)
    /\ SetLoopVars(ParseChunk(LoopVars, SubSeq(stream, pos + 1, pos + n)))
    /\ pos' = pos + n
    /\ UNCHANGED stream

\* Mutant of ReadDone: at the end of the stream the retained last line is
\* processed and the accumulators are flushed.
ReadDoneDraining ==
    /\ spc = "reading"
    /\ pos = Len(stream)
    /\ spc' = "done"
    /\ reader' = ReleaseLock
    /\ LET last == ProcessLine([accs |-> toolCallAccumulators, events |-> events,
                                seen |-> seen, returned |-> FALSE], buffer)
       IN  /\ events' = last.events \o FlushEvents(last.accs)
           /\ seen' = last.seen
           /\ toolCallAccumulators' = <<>>
    /\ buffer' = <<>>
    /\ UNCHANGED <<stream, pos, decoder>>

\* reader.read() reports done: break, then finally { reader.releaseLock() }.
ReadDone ==
    /\ spc = "reading"
    /\ pos = Len(stream)
    /\ spc' = "done"
    /\ reader' = ReleaseLock
    /\ UNCHANGED <<stream, pos, decoder, buffer, toolCallAccumulators, events, seen>>

\* The generator is over before its stream is: its locals are gone, the
\* events it has yielded stay with the consumer.
LeaveLoop(how) ==
    /\ spc' = how
    /\ reader' = ReleaseLock
    /\ decoder' = <<>>
    /\ buffer' = <<>>
    /\ toolCallAccumulators' = <<>>

\* reader.read() rejects (the transport fails): the exception leaves the
\* loop through the finally block and reaches the outer catch.
ReadThrows ==
    /\ spc = "reading"
    /\ LeaveLoop("threw")
    /\ UNCHANGED <<stream, pos, events, seen>>

\* The state of the loop over `lines` when the consumer returns the
\* generator at the k-th event the lines yield.
ReturnedAt(lines, k) ==
    ProcessUntil([accs |-> toolCallAccumulators, events |-> events,
                  seen |-> seen, returned |-> FALSE], lines, Len(events) + k)

\* reader.read() delivers n bytes and the consumer leaves its for-await
\* loop at one of the events the loop body yields for them: the generator,
\* suspended at that yield, is returned and runs its finally block.
ConsumerReturns(n) ==
    /\ spc = "reading"
    /\ pos + n <= Len(stream)
    /\ LET value == SubSeq(stream, pos + 1, pos + n)
           pieces == Split(buffer \o Decode(decoder, value).chars)
           lines == SubSeq(pieces, 1, Len(pieces) - 1)
       IN  \E k \in 1..(Len(ParseChunk(LoopVars, value).events) - Len(events)) :
               /\ events' = ReturnedAt(lines, k).events
               /\ seen' = ReturnedAt(lines, k).seen
    /\ LeaveLoop("abandoned")
    /\ pos' = pos + n
    /\ UNCHANGED stream

ChunkSizes == 1..MaxChunk

ReadRest ==
    /\ Len(stream) - pos > MaxChunk
    /\ ReadChunk(Len(stream) - pos)


(***************************************************************************)
(* The provider at rest (no chat request under way).                       *)
(***************************************************************************)
IdleChatVars ==
    /\ tokens = <<>>
    /\ pc = "idle"
    /\ rulesTool = FALSE
    /\ call = <<>>
    /\ cancelled = FALSE
    /\ reported = <<>>
    /\ requests = <<>>
    /\ nCalls = 0
    /\ sinceNewTurn = {}

IdleCountVars == counting = [pc |-> "idle"]

IdleInfillVars ==
    /\ truncation = [pc |-> "idle"]
    /\ infill = [pc |-> "idle"]

IdleInlineVars == completions = <<>>

IdleConvertVars ==
    conversion = [pc |-> "idle", messages |-> <<>>, wire |-> <<>>, back |-> <<>>]

IdleRoutingVars ==
    routing = [pc |-> "idle", endpoints |-> {}, listed |-> {}, picked |-> 0]

IdleMergeVars ==
    merging = [pc |-> "idle"]

IdleFetchVars ==
    normalizing = [pc |-> "idle"]

IdleSessionsVars ==
    sessions = [history |-> [c \in {"A", "B"} |-> <<>>],
                stored |-> [c \in {"A", "B"} |-> {}], current |-> "none"]

IdleTurnVars ==
    taken = [previous |-> <<>>, initial |-> <<>>, followup |-> <<>>]

IdleLookupVars ==
    lookup = [pc |-> "idle", store |-> <<>>, msg |-> <<>>, result |-> <<>>]

IdleUrlVars ==
    endpoint = [pc |-> "idle", url |-> <<>>, once |-> <<>>, twice |-> <<>>]

InitStream ==
    InitStreamVars /\ IdleChatVars /\ IdleCountVars /\ IdleInfillVars
    /\ IdleInlineVars /\ IdleConvertVars /\ IdleRoutingVars /\ IdleMergeVars
    /\ IdleFetchVars /\ IdleSessionsVars /\ IdleTurnVars /\ IdleLookupVars
    /\ IdleUrlVars

NextStream ==
    \/ \E n \in ChunkSizes : ReadChunk(n) /\ UNCHANGED exceptStream
    \/ ReadRest /\ UNCHANGED exceptStream
    \/ ReadDone /\ UNCHANGED exceptStream
    \/ ReadThrows /\ UNCHANGED exceptStream
    \/ \E n \in ChunkSizes : ConsumerReturns(n) /\ UNCHANGED exceptStream

SpecStream == InitStream /\ [][NextStream]_vars

(***************************************************************************)
(* The parse loop on streams that hold a line with finish_reason stop,     *)
(* with and without a delta object.                                        *)
(***************************************************************************)
StopLineCatalog ==
    { DataLine(<<88>>),               \* text "X"
      DataLine(<<66>>),               \* index 1: id, name, arguments "{}"
      DataLine(<<88, 82, 66, 83>>),   \* text, thinking, a tool call, stop
      DataLine(<<83>>),               \* finish_reason stop
      DataLine(<<78, 83>>) }          \* finish_reason stop, no delta

StopStreams ==
    {EncodeLines(ls) : ls \in UNION {[1..n -> StopLineCatalog] : n \in 1..MaxLines}}

InitStop ==
    /\ stream \in StopStreams
    /\ pos = 0
    /\ decoder = <<>>
    /\ buffer = <<>>
    /\ toolCallAccumulators = <<>>
    /\ events = <<>>
    /\ seen = <<>>
    /\ reader = "locked"
    /\ spc = "reading"
    /\ IdleChatVars /\ IdleCountVars /\ IdleInfillVars /\ IdleInlineVars
    /\ IdleConvertVars /\ IdleRoutingVars /\ IdleMergeVars /\ IdleFetchVars
    /\ IdleSessionsVars /\ IdleTurnVars /\ IdleLookupVars /\ IdleUrlVars

SpecStop == InitStop /\ [][NextStream]_vars

(***************************************************************************)
(* The parse loop on streams whose tool calls arrive out of index order:   *)
(* index 1 may be created before index 0 and touched again after it.       *)
(***************************************************************************)
OrderLineCatalog ==
    { DataLine(<<66>>),               \* index 1: id, name, arguments "{}"
      DataLine(<<65, 79, 67>>),       \* index 0: id, name, arguments "{k}"
      DataLine(<<68, 84>>),           \* index 1: id again; finish tool_calls
      DataLine(<<84>>) }              \* finish_reason tool_calls

OrderStreams ==
    {EncodeLines(ls) : ls \in UNION {[1..n -> OrderLineCatalog] : n \in 1..MaxLines}}

InitOrder ==
    /\ stream \in OrderStreams
    /\ pos = 0
    /\ decoder = <<>>
    /\ buffer = <<>>
    /\ toolCallAccumulators = <<>>
    /\ events = <<>>
    /\ seen = <<>>
    /\ reader = "locked"
    /\ spc = "reading"
    /\ IdleChatVars /\ IdleCountVars /\ IdleInfillVars /\ IdleInlineVars
    /\ IdleConvertVars /\ IdleRoutingVars /\ IdleMergeVars /\ IdleFetchVars
    /\ IdleSessionsVars /\ IdleTurnVars /\ IdleLookupVars /\ IdleUrlVars

SpecOrder == InitOrder /\ [][NextStream]_vars

(***************************************************************************)
(* The parse loop on streams that hold a line that is not JSON and         *)
(* tool-call entries that are never completed.                             *)
(***************************************************************************)
NotJSONLine == DataPrefix \o <<LBRACE, 88>>          \* "data: {X"

MalformedLineCatalog ==
    { NotJSONLine,
      DataLine(<<88>>),               \* text "X"
      DataLine(<<65>>),               \* index 0: id and name, no arguments
      DataLine(<<79>>),               \* index 0: arguments "{k", not JSON
      DataLine(<<66, 84>>) }          \* index 1 complete; finish tool_calls

MalformedStreams ==
    {EncodeLines(ls) :
        ls \in UNION {[1..n -> MalformedLineCatalog] : n \in 1..MaxLines}}

InitMalformed ==
    /\ stream \in MalformedStreams
    /\ pos = 0
    /\ decoder = <<>>
    /\ buffer = <<>>
    /\ toolCallAccumulators = <<>>
    /\ events = <<>>
    /\ seen = <<>>
    /\ reader = "locked"
    /\ spc = "reading"
    /\ IdleChatVars /\ IdleCountVars /\ IdleInfillVars /\ IdleInlineVars
    /\ IdleConvertVars /\ IdleRoutingVars /\ IdleMergeVars /\ IdleFetchVars
    /\ IdleSessionsVars /\ IdleTurnVars /\ IdleLookupVars /\ IdleUrlVars

SpecMalformed == InitMalformed /\ [][NextStream]_vars

(***************************************************************************)
(* The parse loop on streams that end without a flush: after a line with   *)
(* finish_reason length, or after their last byte, which may belong to a   *)
(* line without a line end.                                                *)
(***************************************************************************)
ExhaustLineCatalog ==
    { DataLine(<<88>>),               \* text "X"
      DataLine(<<66>>),               \* index 1: id, name, arguments "{}"
      DataLine(<<66, 84>>),           \* the same, with finish_reason tool_calls
      DataLine(<<76>>) }              \* finish_reason length

ExhaustStreams ==
    LET full == {EncodeLines(ls) :
                    ls \in UNION {[1..n -> ExhaustLineCatalog] : n \in 1..MaxLines}}
    IN  full \cup {SubSeq(s, 1, Len(s) - 2) : s \in full}

InitExhaust ==
    /\ stream \in ExhaustStreams
    /\ pos = 0
    /\ decoder = <<>>
    /\ buffer = <<>>
    /\ toolCallAccumulators = <<>>
    /\ events = <<>>
    /\ seen = <<>>
    /\ reader = "locked"
    /\ spc = "reading"
    /\ IdleChatVars /\ IdleCountVars /\ IdleInfillVars /\ IdleInlineVars
    /\ IdleConvertVars /\ IdleRoutingVars /\ IdleMergeVars /\ IdleFetchVars
    /\ IdleSessionsVars /\ IdleTurnVars /\ IdleLookupVars /\ IdleUrlVars

SpecExhaust == InitExhaust /\ [][NextStream]_vars


(***************************************************************************)
(* Reference semantics of the stream, read off the history `seen` of       *)
(* parsed chunks: the stream is cut into segments, each ending at a chunk  *)
(* that flushes; a segment's tool call for an index is the concatenation   *)
(* of that index's argument fragments in arrival order.                    *)
(***************************************************************************)
Handled(chunk) == chunk.choices /\ chunk.delta

RECURSIVE DeltasOf(_)
DeltasOf(chunks) ==
    IF chunks = <<>> THEN <<>>
    ELSE (IF Handled(Head(chunks)) THEN Head(chunks).tool_calls ELSE <<>>)
         \o DeltasOf(Tail(chunks))

RECURSIVE FragmentsFor(_, _)
FragmentsFor(deltas, index) ==
    IF deltas = <<>> THEN <<>>
    ELSE (IF Head(deltas).index = index THEN Head(deltas).arguments ELSE <<>>)
         \o FragmentsFor(Tail(deltas), index)

SegmentComplete(deltas, index) ==
    /\ \E i \in 1..Len(deltas) : deltas[i].index = index /\ deltas[i].id # ""
    /\ \E i \in 1..Len(deltas) : deltas[i].index = index /\ deltas[i].name # ""
    /\ ArgsValid(FragmentsFor(deltas, index))

\* Whether a chunk ends a segment: a finish_reason tool_calls or stop, on a
\* chunk with a delta object (needDelta) or on any chunk (~needDelta).
EndsSegment(chunk, needDelta) ==
    /\ chunk.choices
    /\ IsFlushReason(chunk.finish_reason)
    /\ needDelta => chunk.delta

\* The chunks since the last chunk that ended a segment.
RECURSIVE OpenSegment(_, _)
OpenSegment(chunks, needDelta) ==
    IF chunks = <<>> THEN <<>>
    ELSE IF EndsSegment(chunks[Len(chunks)], needDelta) THEN <<>>
    ELSE Append(OpenSegment(SubSeq(chunks, 1, Len(chunks) - 1), needDelta),
                chunks[Len(chunks)])

\* The inputs of the tool calls of `index` that the stream completes, one
\* per segment that holds the call's id, name and well-formed arguments.
RECURSIVE ExpectedInputs(_, _, _, _)
ExpectedInputs(chunks, segment, index, needDelta) ==
    IF chunks = <<>> THEN <<>>
    ELSE IF EndsSegment(Head(chunks), needDelta)
         THEN (IF SegmentComplete(DeltasOf(Append(segment, Head(chunks))), index)
               THEN <<ArgsValue(FragmentsFor(
                          DeltasOf(Append(segment, Head(chunks))), index))>>
               ELSE <<>>)
              \o ExpectedInputs(Tail(chunks), <<>>, index, needDelta)
    ELSE ExpectedInputs(Tail(chunks), Append(segment, Head(chunks)), index,
                        needDelta)

CallIdOf(index) == IF index = 0 THEN "a" ELSE "b"
Indexes == {0, 1}

RECURSIVE InputsOf(_, _)
InputsOf(evs, id) ==
    IF evs = <<>> THEN <<>>
    ELSE (IF IsToolCall(Head(evs)) /\ Head(evs).callId = id
          THEN <<Head(evs).input>> ELSE <<>>) \o InputsOf(Tail(evs), id)

RECURSIVE NumToolCalls(_)
NumToolCalls(evs) ==
    IF evs = <<>> THEN 0
    ELSE (IF IsToolCall(Head(evs)) THEN 1 ELSE 0) + NumToolCalls(Tail(evs))

\* The events of the stream read as one chunk.
OneShot(bytes) == ParseChunk(ParserStart, bytes).events

(***************************************************************************)
(* C1.  However the byte stream is cut into transport chunks (inside a     *)
(* multi-byte character, inside a JSON line), the events emitted after the *)
(* bytes delivered so far are those of the same bytes delivered as one     *)
(* chunk, and a finished stream has emitted the events of the whole stream *)
(* delivered as one chunk.                                                 *)
(***************************************************************************)
C1_ChunkingInvariant ==
    /\ spc \notin {"abandoned", "threw"} => events = OneShot(SubSeq(stream, 1, pos))
    /\ spc \in {"done", "returned"} => events = OneShot(stream)

\* A stream cut inside a two-byte character and inside a JSON line, after
\* events of earlier lines.
C1_Witness ==
    /\ decoder # <<>>
    /\ StartsWith(buffer, DataPrefix \o <<LBRACE>>)
    /\ events # <<>>

(***************************************************************************)
(* C2.  For every stream index, the accumulated arguments are the          *)
(* concatenation, in arrival order, of the fragments received for that     *)
(* index since the last flush, and the inputs of the tool calls emitted    *)
(* for the index are the parsed concatenations of its segments' fragments. *)
(***************************************************************************)
C2_ArgumentsConcatenated ==
    /\ \A i \in 1..Len(toolCallAccumulators) :
          toolCallAccumulators[i].arguments =
              FragmentsFor(DeltasOf(OpenSegment(seen, TRUE)),
                           toolCallAccumulators[i].index)
    /\ spc \notin {"abandoned", "threw"} =>
          \A index \in Indexes :
              InputsOf(events, CallIdOf(index)) = ExpectedInputs(seen, <<>>, index, TRUE)

\* A tool call whose arguments came in two fragments carried by two lines
\* has been emitted with the parsed concatenation.
C2_Witness ==
    /\ \E i \in 1..Len(events) :
          IsToolCall(events[i]) /\ events[i].callId = "a" /\ events[i].input = <<107>>
    /\ \E i, j \in 1..Len(seen) :
          /\ i < j
          /\ \E k \in 1..Len(seen[i].tool_calls) :
                seen[i].tool_calls[k].arguments = <<LBRACE, 107>>
          /\ \E k \in 1..Len(seen[j].tool_calls) :
                seen[j].tool_calls[k].arguments = <<RBRACE>>

(***************************************************************************)
(* C3.  A step of the parse loop emits a toolCall event only if one of the *)
(* lines it processes carries finish_reason tool_calls or stop; tool-call  *)
(* deltas alone only update the accumulators.                              *)
(***************************************************************************)
FinishProcessedIn(old, new) ==
    \E k \in (Len(old) + 1)..Len(new) : IsFlushReason(new[k].finish_reason)

C3_NoToolCallBeforeFinish ==
    [][NumToolCalls(events') > NumToolCalls(events)
            => FinishProcessedIn(seen, seen')]_vars

\* A complete tool call (id, name, well-formed arguments) sits in the
\* accumulators after several deltas and nothing has been emitted for it.
C3_Witness ==
    /\ \E i \in 1..Len(toolCallAccumulators) : Flushable(toolCallAccumulators[i])
    /\ Len(DeltasOf(seen)) >= 3
    /\ NumToolCalls(events) = 0

(***************************************************************************)
(* C4.  What the loop guarantees: a tool call whose id and name arrive in  *)
(* one delta and whose arguments arrive in later deltas of the same index  *)
(* is emitted exactly once, at the next line with finish_reason tool_calls *)
(* or stop that carries a delta object, and never again by a later finish  *)
(* line.  A finish line without a delta object is skipped by               *)
(* `if (!delta) continue` and flushes nothing: C4_AsClaimed fails on it.   *)
(***************************************************************************)
C4_ExactlyOncePerFlush ==
    spc \notin {"abandoned", "threw"} => \A index \in Indexes :
        Len(InputsOf(events, CallIdOf(index)))
            = Len(ExpectedInputs(seen, <<>>, index, TRUE))

\* C4 as stated: the call is emitted at the next finish_reason tool_calls or
\* stop, whatever else that line carries.
C4_AsClaimed ==
    Len(InputsOf(events, CallIdOf(0))) = Len(ExpectedInputs(seen, <<>>, 0, FALSE))

\* The call of index 0 (id and name, then "{k", then "}") has been emitted
\* once, and a second finish line has been processed after the flush.
C4_Witness ==
    /\ Len(InputsOf(events, "a")) = 1
    /\ toolCallAccumulators = <<>>
    /\ \E i, j \in 1..Len(seen) :
          /\ i < j
          /\ Handled(seen[i]) /\ IsFlushReason(seen[i].finish_reason)
          /\ Handled(seen[j]) /\ IsFlushReason(seen[j].finish_reason)
          /\ \E k \in 1..(i - 1) : \E d \in 1..Len(seen[k].tool_calls) :
                seen[k].tool_calls[d].id = "a"


(***************************************************************************)
(* Chat messages (vscode.LanguageModelChatMessage).  A text is a sequence  *)
(* of characters; a tool input is the sequence of the members of its       *)
(* object, as ArgsValue returns it.                                        *)
(***************************************************************************)
TextPart(v) == [kind |-> "text", callId |-> "", name |-> "", value |-> v]
ToolCallPart(id, name, inp) ==
    [kind |-> "toolCall", callId |-> id, name |-> name, value |-> inp]
\* value: the content of the result, a sequence of parts
ToolResultPart(id, content) ==
    [kind |-> "toolResult", callId |-> id, name |-> "", value |-> content]

Message(role, content) == [role |-> role, content |-> content]

IsTextPart(p) == p.kind = "text"
IsCallPart(p) == p.kind = "toolCall"
IsResultPart(p) == p.kind = "toolResult"

RECURSIVE SelectParts(_, _)
SelectParts(content, kind) ==
    IF content = <<>> THEN <<>>
    ELSE IF Head(content).kind = kind
         THEN <<Head(content)>> \o SelectParts(Tail(content), kind)
         ELSE SelectParts(Tail(content), kind)

\* content.filter(part instanceof LanguageModelTextPart).map(value).join('')
RECURSIVE JoinText(_)
JoinText(content) ==
    IF content = <<>> THEN <<>>
    ELSE IF IsTextPart(Head(content))
         THEN Head(content).value \o JoinText(Tail(content))
         ELSE JoinText(Tail(content))

StringifyBare(inp) == inp

\* JSON.stringify(part.input): the inverse of ArgsValue
JSONStringify(inp) == <<LBRACE>> \o inp \o <<RBRACE>>

(***************************************************************************)
(* ThinkingTokensTracker: a Map from key to text.  A key is                *)
(* `toolCall_${callId}` or `response_${Date.now()}`.                       *)
(***************************************************************************)
EmptyStore == <<>>

ToolCallKey(callId) == [kind |-> "toolCall", callId |-> callId, time |-> 0]
ResponseKey(now) == [kind |-> "response", callId |-> "", time |-> now]

StoreSet(store, key, value) ==
    [k \in (DOMAIN store) \cup {key} |-> IF k = key THEN value ELSE store[k]]

\* tokens.get(key); undefined and '' are alike to every reader (both falsy)
StoreGet(store, key) == IF key \in DOMAIN store THEN store[key] ELSE <<>>

Undefined == <<>>

HasToolCalls(msg) == \E i \in 1..Len(msg.content) : IsCallPart(msg.content[i])

HasToolResults(msg) == \E i \in 1..Len(msg.content) : IsResultPart(msg.content[i])

\* the value of the first tool-call part that has a non-empty stored value
RECURSIVE FirstStored(_, _)
FirstStored(store, content) ==
    IF content = <<>> THEN Undefined
    ELSE IF IsCallPart(Head(content))
            /\ StoreGet(store, ToolCallKey(Head(content).callId)) # <<>>
         THEN StoreGet(store, ToolCallKey(Head(content).callId))
         ELSE FirstStored(store, Tail(content))

\* Mutant of GetForMessage: only the first tool-call part is looked up.
GetForFirstCall(store, msg) ==
    IF ~HasToolCalls(msg) THEN Undefined
    ELSE StoreGet(store,
                  ToolCallKey(SelectParts(msg.content, "toolCall")[1].callId))

GetForMessage(store, msg) ==
    IF ~HasToolCalls(msg) THEN Undefined ELSE FirstStored(store, msg.content)

IsNewUserMessage(messages) ==
    /\ messages # <<>>
    /\ messages[Len(messages)].role = "user"
    /\ ~HasToolResults(messages[Len(messages)])

\* the nearest assistant message with tool calls, scanning from the end
RECURSIVE IncludeFrom(_, _, _)
IncludeFrom(store, messages, i) ==
    IF i = 0 THEN FALSE
    ELSE IF messages[i].role = "assistant" /\ HasToolCalls(messages[i])
         THEN GetForMessage(store, messages[i]) # Undefined
         ELSE IncludeFrom(store, messages, i - 1)

ShouldIncludeAlways(store, messages) ==
    IncludeFrom(store, messages, Len(messages))

ShouldInclude(store, messages) ==
    IF messages = <<>> \/ IsNewUserMessage(messages) THEN FALSE
    ELSE IncludeFrom(store, messages, Len(messages))

(***************************************************************************)
(* convertVSCodeMessagesToOpenAI.  An absent tool_calls, tool_call_id or   *)
(* reasoning_content is written as <<>>, "" and <<>> (the code sets        *)
(* reasoning_content only to a non-empty text).                            *)
(***************************************************************************)
ContentAsIs(text) == [null |-> FALSE, text |-> text]

\* textParts || null
ContentOrNull(text) == [null |-> text = <<>>, text |-> text]

WireMessage(role, content, toolCalls, toolCallId, reasoning) ==
    [role |-> role, content |-> content, tool_calls |-> toolCalls,
     tool_call_id |-> toolCallId, reasoning_content |-> reasoning]

WireRole(role) ==
    IF role = "user" THEN "user"
    ELSE IF role = "assistant" THEN "assistant"
    ELSE "system"

RECURSIVE WireToolCalls(_)
WireToolCalls(parts) ==
    IF parts = <<>> THEN <<>>
    ELSE <<[id |-> Head(parts).callId, type |-> "function",
            name |-> Head(parts).name,
            arguments |-> JSONStringify(Head(parts).value)]>>
         \o WireToolCalls(Tail(parts))

WireFirstToolResult(parts) ==
    IF parts = <<>> THEN <<>>
    ELSE <<WireMessage("tool",
                       [null |-> FALSE, text |-> JoinText(Head(parts).value)],
                       <<>>, Head(parts).callId, <<>>)>>

RECURSIVE WireToolResults(_)
WireToolResults(parts) ==
    IF parts = <<>> THEN <<>>
    ELSE <<WireMessage("tool",
                       [null |-> FALSE, text |-> JoinText(Head(parts).value)],
                       <<>>, Head(parts).callId, <<>>)>>
         \o WireToolResults(Tail(parts))

AttachAlways(hasLookup, isNew) == hasLookup

\* if (getThinkingTokens && !isNewUserMessage)
AttachReasoning(hasLookup, isNew) == hasLookup /\ ~isNew

\* hasLookup: getThinkingTokens is given; it then reads the store
ConvertMessage(msg, hasLookup, isNew, store) ==
    IF WireRole(msg.role) = "assistant" /\ HasToolCalls(msg)
    THEN <<WireMessage("assistant", ContentOrNull(JoinText(msg.content)),
                       WireToolCalls(SelectParts(msg.content, "toolCall")), "",
                       IF AttachReasoning(hasLookup, isNew)
                       THEN GetForMessage(store, msg) ELSE <<>>)>>
    ELSE IF WireRole(msg.role) = "user" /\ HasToolResults(msg)
    THEN WireToolResults(SelectParts(msg.content, "toolResult"))
         \o (IF JoinText(msg.content) # <<>>
             THEN <<WireMessage("user", ContentOrNull(JoinText(msg.content)),
                                <<>>, "", <<>>)>>
             ELSE <<>>)
    ELSE <<WireMessage(WireRole(msg.role), ContentOrNull(JoinText(msg.content)),
                       <<>>, "", <<>>)>>

RECURSIVE ConvertVSCodeMessagesToOpenAI(_, _, _, _)
ConvertVSCodeMessagesToOpenAI(messages, hasLookup, isNew, store) ==
    IF messages = <<>> THEN <<>>
    ELSE ConvertMessage(Head(messages), hasLookup, isNew, store)
         \o ConvertVSCodeMessagesToOpenAI(Tail(messages), hasLookup, isNew, store)

HasReasoning(wire) == \E i \in 1..Len(wire) : wire[i].reasoning_content # <<>>

(***************************************************************************)
(* Model ids and endpoints (modelInfo).                                    *)
(***************************************************************************)
AT == 64

Endpoints == {<<108>>}               \* this.endpoints: one endpoint, "l"

\* modelId.lastIndexOf('@'), counted from 1; 0 when there is none
LastIndexOfAt(modelId) ==
    IF \E i \in 1..Len(modelId) : modelId[i] = AT
    THEN CHOOSE i \in 1..Len(modelId) :
            /\ modelId[i] = AT
            /\ \A j \in (i + 1)..Len(modelId) : modelId[j] # AT
    ELSE 0

NoEndpoint == <<>>

ParseModelId(modelId) ==
    IF LastIndexOfAt(modelId) = 0 \/ LastIndexOfAt(modelId) = 1
       \/ LastIndexOfAt(modelId) = Len(modelId)
    THEN [baseModelId |-> modelId, endpointId |-> NoEndpoint]
    ELSE [baseModelId |-> SubSeq(modelId, 1, LastIndexOfAt(modelId) - 1),
          endpointId |-> SubSeq(modelId, LastIndexOfAt(modelId) + 1, Len(modelId))]

\* Keys every object inherits from Object.prototype ("constructor").
PrototypeKeys == {<<99>>}

\* Mutant of EndpointLookup: every endpoint id is configured.
AnyEndpoint(endpointId) == "configured"

\* `endpoints[endpointId]`: a configured endpoint, an inherited member (it
\* is truthy, and has no url), or undefined.
GetEndpointConfig(endpoints, endpointId) ==
    IF endpointId \in endpoints THEN "configured"
    ELSE IF endpointId \in PrototypeKeys THEN "inherited"
    ELSE "undefined"

EndpointLookup(endpointId) == GetEndpointConfig(Endpoints, endpointId)

\* the model id resolves: neither `throw` before the request is taken
ConfigResolves(modelId) ==
    /\ ParseModelId(modelId).endpointId # NoEndpoint
    /\ EndpointLookup(ParseModelId(modelId).endpointId) # "undefined"

\* endpointConfig.url is a URL fetch can parse
HasUrl(modelId) == EndpointLookup(ParseModelId(modelId).endpointId) = "configured"

(***************************************************************************)
(* Error texts.  A message is a sequence of words; SETTINGS stands for the *)
(* phrase 'Settings -> Llama Copilot'.                                     *)
(***************************************************************************)
SETTINGS == 83
ERRORWORD == 69
HintWords == <<67, SETTINGS, 73>>    \* "Check", SETTINGS, "if the problem continues."

\* Mutant of DisplayMessage: the hint is appended to every message.
AlwaysAppendHint(errorMessage) == errorMessage \o HintWords

DisplayMessage(errorMessage) ==
    IF SETTINGS \in Range(errorMessage) THEN errorMessage
    ELSE errorMessage \o HintWords

ConfigError == <<ERRORWORD, 77>>     \* both configuration errors: no SETTINGS phrase

\* fetch rejects 'undefined/v1/chat/completions' before it sends anything;
\* handleApiError rethrows it as 'Network error: ...'
UrlError == <<ERRORWORD, 85>>

(***************************************************************************)
(* The project-rule tool (CURSOR_RULES_TOOL_NAME) and the texts the        *)
(* provider builds from intercepted rule calls.  A rule name is one        *)
(* character; the tool's input carries its rule names as members.          *)
(***************************************************************************)
CURSOR_RULES_TOOL_NAME == "get-project-rule"

RuleNameChars == {114, 115}

RECURSIVE JoinWith(_, _)
JoinWith(texts, sep) ==
    IF texts = <<>> THEN <<>>
    ELSE IF Len(texts) = 1 THEN texts[1]
    ELSE texts[1] \o sep \o JoinWith(Tail(texts), sep)

RECURSIVE FormatEach(_)
FormatEach(names) ==
    IF names = <<>> THEN <<>>
    ELSE <<(<<35, Head(names)>>)>> \o FormatEach(Tail(names))

\* resolveAndFormatRules; a missing `rule` member makes inputRule.split throw
RuleNamesOf(inp) == Filter(inp, RuleNameChars)

\* the entry pushed to cursorRulesToolCalls, by the try or by the catch
InterceptedCall(e) ==
    IF RuleNamesOf(e.input) = <<>>
    THEN [callId |-> e.callId, result |-> <<ERRORWORD>>, ruleNames |-> <<>>]
    ELSE [callId |-> e.callId,
          result |-> JoinWith(FormatEach(RuleNamesOf(e.input)), <<NL, NL>>),
          ruleNames |-> RuleNamesOf(e.input)]

\* [...new Set(ruleNames)]: first occurrences, in order
RECURSIVE Unique(_)
Unique(names) ==
    IF names = <<>> THEN <<>>
    ELSE IF names[Len(names)] \in Range(SubSeq(names, 1, Len(names) - 1))
         THEN Unique(SubSeq(names, 1, Len(names) - 1))
         ELSE Unique(SubSeq(names, 1, Len(names) - 1)) \o <<names[Len(names)]>>

RECURSIVE Singletons(_)
Singletons(cs) ==
    IF cs = <<>> THEN <<>> ELSE <<(<<Head(cs)>>)>> \o Singletons(Tail(cs))

AskAbout(unique) ==
    IF Len(unique) = 1 THEN <<80, unique[1]>>
    ELSE <<80>> \o JoinWith(Singletons(SubSeq(unique, 1, Len(unique) - 1)), <<44>>)
         \o <<44, 38, unique[Len(unique)]>>

BuildAssistantMessageForRules(ruleNames) ==
    IF ruleNames = <<>> THEN <<80>> ELSE AskAbout(Unique(ruleNames))

BuildUserMessageWithResults(results) == JoinWith(results, <<NL, NL>>)

RECURSIVE FlatRuleNames(_)
FlatRuleNames(calls) ==
    IF calls = <<>> THEN <<>>
    ELSE Head(calls).ruleNames \o FlatRuleNames(Tail(calls))

RECURSIVE Results(_)
Results(calls) ==
    IF calls = <<>> THEN <<>> ELSE <<Head(calls).result>> \o Results(Tail(calls))

AssistantText(calls) == BuildAssistantMessageForRules(FlatRuleNames(calls))
UserText(calls) == BuildUserMessageWithResults(Results(calls))

\* Mutant of BuildUpdatedMessageHistory: the two messages change places.
UserBeforeAssistant(originalMessages, assistantText, userText) ==
    originalMessages \o <<Message("user", <<TextPart(userText)>>),
                          Message("assistant", <<TextPart(assistantText)>>)>>

BuildUpdatedMessageHistory(originalMessages, assistantText, userText) ==
    originalMessages \o <<Message("assistant", <<TextPart(assistantText)>>),
                          Message("user", <<TextPart(userText)>>)>>

KeepTools(tools) == tools

\* options.tools?.filter(t => t.name !== CURSOR_RULES_TOOL_NAME) || []
WithoutRulesTool(tools) ==
    SelectSeq(tools, LAMBDA t : t # CURSOR_RULES_TOOL_NAME)

(***************************************************************************)
(* LlamaCopilotChatProvider.provideLanguageModelChatResponse as a state    *)
(* machine.  The for-await loops take one event of the stream per step;    *)
(* the cancellation token can be cancelled between any two steps.          *)
(***************************************************************************)
\* nEvents counts the events taken.  connection is the HTTP connection of
\* the stream being read: "none", "open", "closed" (the body was read to its
\* end, or the transport failed) or "aborted".  History fields: streamEnded,
\* the initial for-await loop ran to the end of its stream; passed, a chunk
\* has been read since the token was cancelled; error, the message of the
\* error the catch block caught; thrown, the message of the error it threw.
NewCall(modelId, messages, tools) ==
    [modelId |-> modelId, messages |-> messages, tools |-> tools,
     currentThinkingTokens |-> <<>>, cursorRulesToolCalls |-> <<>>,
     nEvents |-> 0, connection |-> "none", streamEnded |-> FALSE,
     passed |-> FALSE, error |-> <<>>, thrown |-> <<>>]

\* catch (error): the text reported and the error thrown
Caught(c, errorMessage) ==
    [c EXCEPT !.error = errorMessage, !.thrown = DisplayMessage(errorMessage),
              !.connection = IF @ = "open" THEN "closed" ELSE @]

\* A request handed to streamChatCompletion, with the chat messages it
\* converts.  History fields: store is the tracker when the request is built,
\* storeBefore the tracker when the call began, fresh the value of
\* sinceNewTurn when the call began.
Request(phase, messages, tools, hasLookup, isNew, store, storeBefore, fresh) ==
    [phase |-> phase, messages |-> messages, tools |-> tools,
     hasLookup |-> hasLookup, isNewUserMessage |-> isNew,
     wire |-> ConvertVSCodeMessagesToOpenAI(messages, hasLookup, isNew, store),
     store |-> store, storeBefore |-> storeBefore, fresh |-> fresh]

NeverClear(store, messages) == store

\* if (isNewUserMsg) { this.thinkingTokens.clear(); }
ClearIfNew(store, messages) ==
    IF IsNewUserMessage(messages) THEN EmptyStore ELSE store

OfferedTools(tools, offer) ==
    IF offer THEN tools \o <<CURSOR_RULES_TOOL_NAME>> ELSE tools

InitialRequest(messages, tools, offer, before, fresh) ==
    Request("initial", messages, OfferedTools(tools, offer),
            ShouldInclude(before, messages), IsNewUserMessage(messages),
            ClearIfNew(before, messages), before, fresh)

\* makeFollowUpRequest: getThinkingTokens: undefined, isNewUserMessage: false
FollowUpRequest(c, store, fresh) ==
    Request("followup",
            BuildUpdatedMessageHistory(c.messages,
                                       AssistantText(c.cursorRulesToolCalls),
                                       UserText(c.cursorRulesToolCalls)),
            WithoutRulesTool(c.tools), FALSE, FALSE, store, store, fresh)

\* chunk.toolCall.name === CURSOR_RULES_TOOL_NAME && this.rulesTool && this.ruleManager
Intercepts(e) == IsToolCall(e) /\ e.name = CURSOR_RULES_TOOL_NAME /\ rulesTool

StoresThinking(c, e) == IsToolCall(e) /\ c.currentThinkingTokens # <<>>

\* Mutant of AfterEvent: a tool call leaves the thinking buffer as it is.
AfterEventKeeping(c, e) ==
    [c EXCEPT
        !.nEvents = @ + 1,
        !.cursorRulesToolCalls =
            IF Intercepts(e) THEN Append(@, InterceptedCall(e)) ELSE @,
        !.currentThinkingTokens =
            IF e.type = "thinking" THEN @ \o e.content ELSE @]

\* the locals after the loop body has handled event e
AfterEvent(c, e) ==
    [c EXCEPT
        !.nEvents = @ + 1,
        !.cursorRulesToolCalls =
            IF Intercepts(e) THEN Append(@, InterceptedCall(e)) ELSE @,
        !.currentThinkingTokens =
            IF e.type = "thinking" THEN @ \o e.content
            ELSE IF IsToolCall(e) THEN <<>>
            ELSE @]

\* what the loop body of the initial stream passes to progress.report
ReportsOf(e) ==
    IF e.type = "text" THEN <<TextPart(e.content)>>
    ELSE IF IsToolCall(e) /\ ~Intercepts(e)
         THEN <<ToolCallPart(e.callId, e.name, e.input)>>
    ELSE <<>>

\* what the loop body of makeFollowUpRequest passes to progress.report
FollowUpReportsOf(e) ==
    IF e.type = "text" THEN <<TextPart(e.content)>>
    ELSE IF IsToolCall(e) THEN <<ToolCallPart(e.callId, e.name, e.input)>>
    ELSE <<>>

\* the fallback key after streaming: `response_${Date.now()}`
StoreRemaining(store, c, now) ==
    IF c.currentThinkingTokens # <<>>
    THEN StoreSet(store, ResponseKey(now), c.currentThinkingTokens)
    ELSE store

(***************************************************************************)
(* Inputs of the provider: chat histories, model ids, tool lists, and the  *)
(* events and failures of a stream.                                        *)
(***************************************************************************)
UserAsks == Message("user", <<TextPart(<<104>>)>>)
AssistantCalls(id) == Message("assistant", <<ToolCallPart(id, "t", <<107>>)>>)
UserReturns(id) == Message("user", <<ToolResultPart(id, <<TextPart(<<111>>)>>)>>)
AssistantSays == Message("assistant", <<TextPart(<<97>>)>>)

Histories ==
    { <<>>,
      <<UserAsks>>,
      <<UserAsks, AssistantCalls("c1")>>,
      <<UserAsks, AssistantCalls("c1"), UserReturns("c1")>>,
      <<UserAsks, AssistantCalls("c1"), UserReturns("c2")>>,
      <<UserAsks, AssistantCalls("c1"), UserReturns("c1"), AssistantSays>>,
      <<UserAsks, AssistantCalls("c1"), UserReturns("c1"), UserAsks>> }

Configured == <<109, AT, 108>>                    \* "m@l"

ModelIds ==
    { Configured, <<109>>, <<109, AT, 122>>,      \* "m", "m@z"
      <<AT, 108>>, <<109, AT>>,                   \* "@l", "m@"
      <<AT, 109, AT, 108>>,                       \* "@m@l"
      <<109, AT, 99>> }                           \* "m@constructor"


ToolLists == { <<"t">>, <<"t", CURSOR_RULES_TOOL_NAME>> }

\* What the host passes: every history and tool list with the configured
\* model, one history and tool list with each of the other ids.
CallInputs ==
    ({Configured} \X Histories \X ToolLists)
        \cup ((ModelIds \ {Configured}) \X {<<UserAsks>>} \X {<<"t">>})

ChatEvents ==
    { TextEvent(<<88>>), ThinkingEvent(<<82>>),
      ToolCallEvent("c1", "t", <<107>>),
      ToolCallEvent("r1", CURSOR_RULES_TOOL_NAME, <<114>>) }

ErrorMessages == { <<ERRORWORD>>, <<ERRORWORD, SETTINGS>> }

InitChatVars ==
    /\ tokens = EmptyStore
    /\ rulesTool \in BOOLEAN
    /\ pc = "idle"
    /\ call = <<>>
    /\ cancelled = FALSE
    /\ reported = <<>>
    /\ requests = <<>>
    /\ nCalls = 0
    /\ sinceNewTurn = {}

\* The host calls provideLanguageModelChatResponse: configuration, turn
\* classification, the tool list, and the initial request.
BeginCall(modelId, messages, tools, offer) ==
    /\ pc = "idle"
    /\ offer => rulesTool
    /\ nCalls' = nCalls + 1
    /\ cancelled' = FALSE
    /\ UNCHANGED rulesTool
    /\ IF ConfigResolves(modelId)
       THEN /\ tokens' = ClearIfNew(tokens, messages)
            /\ sinceNewTurn' = IF IsNewUserMessage(messages) THEN {} ELSE sinceNewTurn
            /\ IF HasUrl(modelId)
               THEN /\ call' = [NewCall(modelId, messages, tools)
                                   EXCEPT !.connection = "open"]
                    /\ requests' = <<InitialRequest(messages, tools, offer, tokens,
                                                    sinceNewTurn)>>
                    /\ reported' = <<>>
                    /\ pc' = "streaming"
               ELSE /\ call' = Caught(NewCall(modelId, messages, tools), UrlError)
                    /\ reported' = <<TextPart(DisplayMessage(UrlError))>>
                    /\ requests' = <<>>
                    /\ pc' = "failed"
       ELSE /\ call' = Caught(NewCall(modelId, messages, tools), ConfigError)
            /\ reported' = <<TextPart(DisplayMessage(ConfigError))>>
            /\ requests' = <<>>
            /\ pc' = "failed"
            /\ UNCHANGED <<tokens, sinceNewTurn>>

StartCall(modelId, messages, tools, offer) ==
    /\ nCalls < MaxCalls
    /\ BeginCall(modelId, messages, tools, offer)

\* token.isCancellationRequested becomes true
Cancel ==
    /\ pc \in {"streaming", "followup"}
    /\ ~cancelled
    /\ cancelled' = TRUE
    /\ UNCHANGED <<tokens, rulesTool, pc, call, reported, requests, nCalls, sinceNewTurn>>

\* The initial stream yields e: one pass of the for-await loop body.
YieldEvent(e) ==
    /\ pc = "streaming"
    /\ UNCHANGED <<rulesTool, cancelled, requests, nCalls>>
    /\ IF cancelled
       THEN /\ pc' = "cancelled"
            /\ UNCHANGED <<tokens, call, reported, sinceNewTurn>>
       ELSE /\ pc' = "streaming"
            /\ reported' = reported \o ReportsOf(e)
            /\ call' = AfterEvent(call, e)
            /\ tokens' = IF StoresThinking(call, e)
                         THEN StoreSet(tokens, ToolCallKey(e.callId),
                                       call.currentThinkingTokens)
                         ELSE tokens
            /\ sinceNewTurn' = IF StoresThinking(call, e)
                               THEN sinceNewTurn \cup {e.callId}
                               ELSE sinceNewTurn

StreamYield(e) ==
    /\ pc = "streaming"
    /\ call.nEvents < MaxEvents
    /\ YieldEvent(e)

\* The initial stream ends: the synthesized texts and the follow-up request
\* when rule calls were intercepted, else the remaining thinking is stored.
StreamEnd ==
    /\ pc = "streaming"
    /\ UNCHANGED <<rulesTool, cancelled, nCalls, sinceNewTurn>>
    /\ IF call.cursorRulesToolCalls # <<>>
       THEN /\ call' = [call EXCEPT !.streamEnded = TRUE, !.passed = FALSE]
            /\ reported' = reported
                    \o <<TextPart(AssistantText(call.cursorRulesToolCalls)),
                         TextPart(UserText(call.cursorRulesToolCalls))>>
            /\ requests' = Append(requests, FollowUpRequest(call, tokens, sinceNewTurn))
            /\ pc' = "followup"
            /\ UNCHANGED tokens
       ELSE /\ call' = [call EXCEPT !.streamEnded = TRUE, !.connection = "closed"]
            /\ tokens' = StoreRemaining(tokens, call, nCalls)
            /\ pc' = "done"
            /\ UNCHANGED <<reported, requests>>

\* A stream throws (fetch, HTTP status, read): the catch block.
StreamError(errorMessage) ==
    /\ pc \in {"streaming", "followup"}
    /\ reported' = Append(reported, TextPart(DisplayMessage(errorMessage)))
    /\ call' = Caught(call, errorMessage)
    /\ pc' = "failed"
    /\ UNCHANGED <<tokens, rulesTool, cancelled, requests, nCalls, sinceNewTurn>>

\* Mutant of FollowUpEvent: the follow-up loop treats thinking and tool
\* calls as the initial loop does.
FollowUpEventStoring(e) ==
    /\ pc = "followup"
    /\ UNCHANGED <<rulesTool, cancelled, requests, nCalls, sinceNewTurn>>
    /\ reported' = reported \o FollowUpReportsOf(e)
    /\ call' = AfterEvent(call, e)
    /\ tokens' = IF StoresThinking(call, e)
                 THEN StoreSet(tokens, ToolCallKey(e.callId),
                               call.currentThinkingTokens)
                 ELSE tokens
    /\ pc' = "followup"

\* The follow-up stream yields e: one pass of makeFollowUpRequest's loop body.
FollowUpEvent(e) ==
    /\ pc = "followup"
    /\ UNCHANGED <<rulesTool, cancelled, requests, nCalls, sinceNewTurn>>
    /\ IF cancelled
       THEN /\ tokens' = StoreRemaining(tokens, call, nCalls)
            /\ pc' = "done"
            /\ UNCHANGED <<call, reported>>
       ELSE /\ reported' = reported \o FollowUpReportsOf(e)
            /\ call' = [call EXCEPT !.nEvents = @ + 1]
            /\ pc' = "followup"
            /\ UNCHANGED tokens

FollowUpYield(e) ==
    /\ pc = "followup"
    /\ call.nEvents < MaxEvents
    /\ FollowUpEvent(e)

\* The follow-up stream ends; the remaining thinking is stored.
FollowUpEnd ==
    /\ pc = "followup"
    /\ tokens' = StoreRemaining(tokens, call, nCalls)
    /\ call' = [call EXCEPT !.connection = "closed"]
    /\ pc' = "done"
    /\ UNCHANGED <<rulesTool, cancelled, reported, requests, nCalls, sinceNewTurn>>

\* reader.read() delivers a chunk from which the parse loop yields no event
\* (an incomplete line, a malformed or empty one): the generator reads on and
\* the for-await body, with its cancellation test, does not run.
StreamChunk ==
    /\ pc \in {"streaming", "followup"}
    /\ call' = [call EXCEPT !.passed = cancelled]
    /\ UNCHANGED <<tokens, rulesTool, pc, cancelled, reported, requests, nCalls,
                   sinceNewTurn>>

\* The promise settles; the locals of the call are gone.
Return ==
    /\ pc \in {"done", "failed", "cancelled"}
    /\ pc' = "idle"
    /\ call' = <<>>
    /\ cancelled' = FALSE
    /\ reported' = <<>>
    /\ requests' = <<>>
    /\ UNCHANGED <<tokens, rulesTool, nCalls, sinceNewTurn>>

InitChat ==
    IdleStreamVars /\ InitChatVars /\ IdleCountVars /\ IdleInfillVars
    /\ IdleInlineVars /\ IdleConvertVars /\ IdleRoutingVars /\ IdleMergeVars
    /\ IdleFetchVars /\ IdleSessionsVars /\ IdleTurnVars /\ IdleLookupVars
    /\ IdleUrlVars

NextChat ==
    \/ \E input \in CallInputs, offer \in BOOLEAN :
            StartCall(input[1], input[2], input[3], offer) /\ UNCHANGED exceptChat
    \/ Cancel /\ UNCHANGED exceptChat
    \/ \E e \in ChatEvents : StreamYield(e) /\ UNCHANGED exceptChat
    \/ StreamEnd /\ UNCHANGED exceptChat
    \/ \E m \in ErrorMessages : StreamError(m) /\ UNCHANGED exceptChat
    \/ \E e \in ChatEvents : FollowUpYield(e) /\ UNCHANGED exceptChat
    \/ FollowUpEnd /\ UNCHANGED exceptChat
    \/ StreamChunk /\ UNCHANGED exceptChat
    \/ Return /\ UNCHANGED exceptChat

SpecChat == InitChat /\ [][NextChat]_vars

(***************************************************************************)
(* provideTokenCount and tokenize (llamaClient).                           *)
(***************************************************************************)
\* What fetch and the response body give tokenize: fetch rejects, a status
\* outside 2xx, a 2xx body that is not JSON, a 2xx JSON body without a
\* tokens array, a 2xx JSON body with one.
TokenizeResponse(kind, array) == [kind |-> kind, tokens |-> array]

TokenArrays == UNION {[1..n -> {1, 2}] : n \in 0..MaxTokens}

TokenizeResponses ==
    {TokenizeResponse(k, <<>>) : k \in {"rejected", "notOk", "notJSON", "noTokens"}}
        \cup {TokenizeResponse("tokens", t) : t \in TokenArrays}

Thrown == [threw |-> TRUE, value |-> 0]
Returned(n) == [threw |-> FALSE, value |-> n]

\* tokenize: a rejected fetch, `!response.ok` and a rejected response.json()
\* all leave through handleApiError, which throws
Tokenize(response) ==
    IF response.kind \in {"rejected", "notOk", "notJSON"} THEN Thrown
    ELSE IF response.kind = "tokens" THEN Returned(Len(response.tokens))
    ELSE Returned(0)

\* Mutant of CatchAll: the error is propagated to the caller.
Propagate(outcome) == outcome

\* try { ... } catch (error) { return 0 }
CatchAll(outcome) == IF outcome.threw THEN Returned(0) ELSE outcome

\* `text` is a string or a message; of a message, the text parts joined
ContentOf(text) ==
    IF text.isString THEN text.string ELSE JoinText(text.message.content)

StringText(string) ==
    [isString |-> TRUE, string |-> string, message |-> Message("user", <<>>)]
MessageText(message) == [isString |-> FALSE, string |-> <<>>, message |-> message]

CountTexts ==
    { StringText(<<104, 105>>), MessageText(UserAsks),
      MessageText(AssistantCalls("c1")),
      MessageText(Message("user", <<TextPart(<<104>>), ToolResultPart("c1", <<>>),
                                    TextPart(<<105>>)>>)) }

Counting(pc_, modelId, content, response, outcome) ==
    [pc |-> pc_, modelId |-> modelId, content |-> content, response |-> response,
     outcome |-> outcome]

NoResponse == TokenizeResponse("none", <<>>)

\* The host calls provideTokenCount: the model id is resolved and the
\* request is sent, or the call returns at once.
CountStart(modelId, text) ==
    /\ counting.pc = "idle"
    /\ counting' =
          IF ConfigResolves(modelId) /\ HasUrl(modelId)
          THEN Counting("fetching", modelId, ContentOf(text), NoResponse, Thrown)
          ELSE Counting("returned", modelId, ContentOf(text), NoResponse,
                        CatchAll(Thrown))

\* fetch settles and provideTokenCount returns.
CountRespond(response) ==
    /\ counting.pc = "fetching"
    /\ counting' = [counting EXCEPT !.pc = "returned", !.response = response,
                                    !.outcome = CatchAll(Tokenize(response))]

\* the caller has taken the result
CountReturn ==
    /\ counting.pc = "returned"
    /\ counting' = [pc |-> "idle"]

InitCount ==
    IdleStreamVars /\ IdleChatVars /\ IdleCountVars /\ IdleInfillVars
    /\ IdleInlineVars /\ IdleConvertVars /\ IdleRoutingVars /\ IdleMergeVars
    /\ IdleFetchVars /\ IdleSessionsVars /\ IdleTurnVars /\ IdleLookupVars
    /\ IdleUrlVars

NextCount ==
    \/ \E modelId \in ModelIds, text \in CountTexts :
            CountStart(modelId, text) /\ UNCHANGED exceptCount
    \/ \E response \in TokenizeResponses : CountRespond(response) /\ UNCHANGED exceptCount
    \/ CountReturn /\ UNCHANGED exceptCount

SpecCount == InitCount /\ [][NextCount]_vars

(***************************************************************************)
(* contextBuilder: strings are sequences of UTF-16 code units, buffers     *)
(* sequences of bytes.                                                     *)
(***************************************************************************)
MIN_SUFFIX_BYTES == 6       \* the source's 4096, scaled to the texts of the model

IsHighSurrogate(u) == u \in 55296..56319
IsLowSurrogate(u) == u \in 56320..57343

\* UTF-8 encoding of one code point
EncodeCodePoint(cp) ==
    IF cp < 128 THEN <<cp>>
    ELSE IF cp < 2048 THEN <<192 + (cp \div 64), 128 + (cp % 64)>>
    ELSE IF cp < 65536
         THEN <<224 + (cp \div 4096), 128 + ((cp \div 64) % 64), 128 + (cp % 64)>>
    ELSE <<240 + (cp \div 262144), 128 + ((cp \div 4096) % 64),
           128 + ((cp \div 64) % 64), 128 + (cp % 64)>>

\* Buffer.from(str, 'utf8'): a surrogate pair is one four-byte character, a
\* surrogate without its partner is encoded as U+FFFD
RECURSIVE BufferFrom(_)
BufferFrom(str) ==
    IF str = <<>> THEN <<>>
    ELSE IF IsHighSurrogate(str[1]) /\ Len(str) >= 2 /\ IsLowSurrogate(str[2])
         THEN EncodeCodePoint(65536 + (str[1] - 55296) * 1024 + (str[2] - 56320))
                  \o BufferFrom(SubSeq(str, 3, Len(str)))
    ELSE IF IsHighSurrogate(str[1]) \/ IsLowSurrogate(str[1])
         THEN EncodeCodePoint(REPLACEMENT) \o BufferFrom(Tail(str))
    ELSE EncodeCodePoint(str[1]) \o BufferFrom(Tail(str))

\* Number of bytes of the character a lead byte starts; 0 for a byte that
\* starts none
SequenceLength(b) ==
    IF b < 128 THEN 1
    ELSE IF b \in 194..223 THEN 2
    ELSE IF b \in 224..239 THEN 3
    ELSE IF b \in 240..244 THEN 4
    ELSE 0

\* The code point of a well-formed sequence of n bytes at the head of buf
DecodeCodePoint(buf, n) ==
    IF n = 1 THEN buf[1]
    ELSE IF n = 2 THEN (buf[1] - 192) * 64 + (buf[2] - 128)
    ELSE IF n = 3 THEN (buf[1] - 224) * 4096 + (buf[2] - 128) * 64 + (buf[3] - 128)
    ELSE (buf[1] - 240) * 262144 + (buf[2] - 128) * 4096 + (buf[3] - 128) * 64
             + (buf[4] - 128)

\* The UTF-16 code units of a code point
CodeUnits(cp) ==
    IF cp < 65536 THEN <<cp>>
    ELSE <<55296 + ((cp - 65536) \div 1024), 56320 + ((cp - 65536) % 1024)>>

\* buf.toString('utf8'): a byte that starts no complete character decodes
\* to U+FFFD
RECURSIVE BufferToString(_)
BufferToString(buf) ==
    IF buf = <<>> THEN <<>>
    ELSE IF /\ SequenceLength(buf[1]) >= 1
            /\ Len(buf) >= SequenceLength(buf[1])
            /\ \A i \in 2..SequenceLength(buf[1]) : IsCont(buf[i])
         THEN CodeUnits(DecodeCodePoint(buf, SequenceLength(buf[1])))
                  \o BufferToString(SubSeq(buf, SequenceLength(buf[1]) + 1, Len(buf)))
    ELSE <<REPLACEMENT>> \o BufferToString(Tail(buf))

ByteLength(str) == Len(BufferFrom(str))

\* `while (len > 0 && (buf[len] & 0xc0) === 0x80) len--`, buf counted from 0
RECURSIVE BoundaryAtOrBefore(_, _)
BoundaryAtOrBefore(buf, len) ==
    IF len > 0 /\ IsCont(buf[len + 1]) THEN BoundaryAtOrBefore(buf, len - 1) ELSE len

\* `while (start < buf.length && (buf[start] & 0xc0) === 0x80) start++`
RECURSIVE BoundaryAtOrAfter(_, _)
BoundaryAtOrAfter(buf, start) ==
    IF start < Len(buf) /\ IsCont(buf[start + 1])
    THEN BoundaryAtOrAfter(buf, start + 1) ELSE start

\* Mutant of CutEnd: the buffer is cut at maxBytes, wherever that falls.
CutEndAnywhere(buf, maxBytes) == SubSeq(buf, 1, maxBytes)

\* buf.subarray(0, len) with len moved back to a character boundary
CutEnd(buf, maxBytes) == SubSeq(buf, 1, BoundaryAtOrBefore(buf, maxBytes))

TruncateToByteLength(str, maxBytes) ==
    IF maxBytes <= 0 THEN <<>>
    ELSE IF Len(BufferFrom(str)) <= maxBytes THEN str
    ELSE BufferToString(CutEnd(BufferFrom(str), maxBytes))

\* buf.subarray(start) with start moved forward to a character boundary
CutStart(buf, maxBytes) ==
    SubSeq(buf, BoundaryAtOrAfter(buf, Len(buf) - maxBytes) + 1, Len(buf))

TruncateStartToByteLength(str, maxBytes) ==
    IF maxBytes <= 0 THEN <<>>
    ELSE IF Len(BufferFrom(str)) <= maxBytes THEN str
    ELSE BufferToString(CutStart(BufferFrom(str), maxBytes))

Max(a, b) == IF a >= b THEN a ELSE b
Min(a, b) == IF a <= b THEN a ELSE b

File(filename, text) == [filename |-> filename, text |-> text]

\* Mutant of InputExtra: a file that does not fit is skipped and the loop
\* goes on.
RECURSIVE InputExtraSkipping(_, _)
InputExtraSkipping(otherFiles, budget) ==
    IF otherFiles = <<>> \/ budget <= 0 THEN <<>>
    ELSE IF ByteLength(Head(otherFiles).text) <= budget
         THEN <<Head(otherFiles)>>
                  \o InputExtraSkipping(Tail(otherFiles),
                                        budget - ByteLength(Head(otherFiles).text))
    ELSE InputExtraSkipping(Tail(otherFiles), budget)

\* the loop over otherFiles
RECURSIVE InputExtra(_, _)
InputExtra(otherFiles, budget) ==
    IF otherFiles = <<>> \/ budget <= 0 THEN <<>>
    ELSE IF ByteLength(Head(otherFiles).text) <= budget
         THEN <<Head(otherFiles)>>
                  \o InputExtra(Tail(otherFiles),
                                budget - ByteLength(Head(otherFiles).text))
    ELSE IF Len(TruncateToByteLength(Head(otherFiles).text, budget)) > 0
         THEN <<File(Head(otherFiles).filename,
                     TruncateToByteLength(Head(otherFiles).text, budget))>>
    ELSE <<>>

\* Mutant of FitSuffix: the suffix gets what the prefix leaves, without a
\* floor.
FitSuffixNoFloor(prefix, suffix, maxInputBytes) ==
    IF ByteLength(prefix) + ByteLength(suffix) > maxInputBytes
    THEN TruncateToByteLength(suffix, maxInputBytes - ByteLength(prefix))
    ELSE suffix

\* the suffix after `if (prefixBytes + suffixBytes > maxInputBytes)`
FitSuffix(prefix, suffix, maxInputBytes) ==
    IF ByteLength(prefix) + ByteLength(suffix) > maxInputBytes
    THEN TruncateToByteLength(suffix,
                              Max(MIN_SUFFIX_BYTES, maxInputBytes - ByteLength(prefix)))
    ELSE suffix

\* the prefix, given the suffix that is kept
FitPrefix(prefix, kept, maxInputBytes) ==
    IF ByteLength(prefix) + ByteLength(kept) > maxInputBytes
    THEN TruncateStartToByteLength(prefix, maxInputBytes - ByteLength(kept))
    ELSE prefix

InfillContextResult(prefix, suffix, maxInputBytes, otherFiles) ==
    [input_prefix |-> prefix, input_suffix |-> suffix,
     input_extra |-> InputExtra(otherFiles,
                                maxInputBytes - ByteLength(prefix) - ByteLength(suffix))]

\* fullText is document.getText(), offset is document.offsetAt(position)
BuildInfillContext(fullText, offset, maxInputBytes, otherFiles) ==
    LET prefix == SubSeq(fullText, 1, offset)
        suffix == SubSeq(fullText, offset + 1, Len(fullText))
        kept == FitSuffix(prefix, suffix, maxInputBytes)
    IN  InfillContextResult(FitPrefix(prefix, kept, maxInputBytes), kept,
                            maxInputBytes, otherFiles)

\* Code units of the texts: "a", the euro sign (three bytes), and the two
\* halves of U+1F600 (four bytes together, a lone half is ill-formed).
CodeUnitsUsed == {97, 8364, 55357, 56832}

Texts == UNION {[1..n -> CodeUnitsUsed] : n \in 0..MaxText}

OtherFilesLists ==
    { <<>>,
      <<File("f", <<97>>)>>,
      <<File("f", <<>>), File("g", <<97, 8364>>)>>,
      <<File("f", <<97>>), File("g", <<>>), File("h", <<97>>)>>,
      <<File("f", <<55357, 56832>>), File("g", <<97>>)>>,
      <<File("f", <<97>>), File("g", <<8364, 97>>), File("h", <<97>>)>> }

\* The lists of other files a document comes with: all of them with a short
\* document, two with a longer one.
OtherFilesFor(fullText) ==
    IF Len(fullText) <= MaxShortText THEN OtherFilesLists
    ELSE {<<>>, <<File("f", <<97>>), File("g", <<97>>)>>}

\* One call of each truncate function.
Truncate ==
    /\ truncation.pc = "idle"
    /\ infill.pc = "idle"
    /\ \E str \in Texts, maxBytes \in (0 - 1)..MaxInputBytes :
          truncation' = [pc |-> "returned", str |-> str, maxBytes |-> maxBytes,
                         head |-> TruncateToByteLength(str, maxBytes),
                         tail |-> TruncateStartToByteLength(str, maxBytes)]
    /\ UNCHANGED infill

\* One call of buildInfillContext.
Build ==
    /\ infill.pc = "idle"
    /\ truncation.pc = "idle"
    /\ \E fullText \in Texts, maxInputBytes \in 0..MaxInputBytes :
          \E offset \in 0..Len(fullText), otherFiles \in OtherFilesFor(fullText) :
              infill' = [pc |-> "returned", fullText |-> fullText, offset |-> offset,
                         maxInputBytes |-> maxInputBytes, otherFiles |-> otherFiles,
                         result |-> BuildInfillContext(fullText, offset,
                                                       maxInputBytes, otherFiles)]
    /\ UNCHANGED truncation

InitInfill ==
    IdleStreamVars /\ IdleChatVars /\ IdleCountVars /\ IdleInfillVars
    /\ IdleInlineVars /\ IdleConvertVars /\ IdleRoutingVars /\ IdleMergeVars
    /\ IdleFetchVars /\ IdleSessionsVars /\ IdleTurnVars /\ IdleLookupVars
    /\ IdleUrlVars

NextInfill ==
    \/ Truncate /\ UNCHANGED exceptInfill
    \/ Build /\ UNCHANGED exceptInfill

SpecInfill == InitInfill /\ [][NextInfill]_vars

(***************************************************************************)
(* InlineCompletionProvider.provideInlineCompletionItems, with a           *)
(* configured inline completion model.  Each call has its own token, its   *)
(* own debounce timer and its own AbortController; the provider keeps      *)
(* nothing between calls.                                                  *)
(***************************************************************************)
\* phase: "debouncing" (the timer is set), "requesting" (/infill is under
\* way) or "resolved".  timer: ticks until the debounce timer is due.
\* History fields: infill, an /infill request was sent; waited, ticks
\* between the call and its request; superseded, a newer automatic call
\* arrived before the delay had elapsed; stopped, the token was cancelled
\* while the timer was set.
Completion(triggerKind, phase, timer, sent) ==
    [triggerKind |-> triggerKind, phase |-> phase, timer |-> timer,
     cancelled |-> FALSE, infill |-> sent, waited |-> 0, superseded |-> FALSE,
     stopped |-> FALSE]

\* history: what the arrival of a newer automatic call means for call r
Supersede(r) ==
    IF r.triggerKind = "Automatic" /\ r.phase = "debouncing" /\ r.timer > 0
    THEN [r EXCEPT !.superseded = TRUE] ELSE r

\* An automatic call: setTimeout(() => doRequest(), debounceMs).  Nothing is
\* done about the calls already waiting.
ArriveAutomatic ==
    /\ Len(completions) < MaxCompletions
    /\ completions' =
          Append([i \in 1..Len(completions) |-> Supersede(completions[i])],
                 Completion("Automatic", "debouncing", DebounceTicks, FALSE))

\* An explicit call: `return doRequest()`, which sends the request before it
\* first awaits.
ArriveInvoke ==
    /\ Len(completions) < MaxCompletions
    /\ completions' = Append(completions, Completion("Invoke", "requesting", 0, TRUE))

\* One tick of the clock.
Tick ==
    /\ \E i \in 1..Len(completions) :
          completions[i].phase = "debouncing" /\ completions[i].timer > 0
    /\ completions' =
          [i \in 1..Len(completions) |->
              IF completions[i].phase = "debouncing" /\ completions[i].timer > 0
              THEN [completions[i] EXCEPT !.timer = @ - 1, !.waited = @ + 1]
              ELSE completions[i]]

\* doRequest with the token not cancelled: requestInfill is called
DoRequest(r) == [r EXCEPT !.phase = "requesting", !.infill = TRUE]

\* The debounce timer of call i fires.
TimerFires(i) ==
    /\ completions[i].phase = "debouncing"
    /\ completions[i].timer = 0
    /\ completions' = [completions EXCEPT ![i] = DoRequest(@)]

\* The editor cancels the token of call i: a waiting call clears its timer
\* and resolves, a call under way aborts its fetch.
CancelCompletion(i) ==
    /\ completions[i].phase # "resolved"
    /\ completions' = [completions EXCEPT ![i] =
                          [@ EXCEPT !.cancelled = TRUE, !.phase = "resolved",
                                    !.stopped = (@ \/ completions[i].phase = "debouncing")]]

\* requestInfill settles (a completion, an error or the request timeout).
InfillSettles(i) ==
    /\ completions[i].phase = "requesting"
    /\ completions' = [completions EXCEPT ![i] = [@ EXCEPT !.phase = "resolved"]]

InitInline ==
    IdleStreamVars /\ IdleChatVars /\ IdleCountVars /\ IdleInfillVars
    /\ IdleInlineVars /\ IdleConvertVars /\ IdleRoutingVars /\ IdleMergeVars
    /\ IdleFetchVars /\ IdleSessionsVars /\ IdleTurnVars /\ IdleLookupVars
    /\ IdleUrlVars

NextInline ==
    \/ ArriveAutomatic /\ UNCHANGED exceptInline
    \/ ArriveInvoke /\ UNCHANGED exceptInline
    \/ Tick /\ UNCHANGED exceptInline
    \/ \E i \in 1..Len(completions) : TimerFires(i) /\ UNCHANGED exceptInline
    \/ \E i \in 1..Len(completions) : CancelCompletion(i) /\ UNCHANGED exceptInline
    \/ \E i \in 1..Len(completions) : InfillSettles(i) /\ UNCHANGED exceptInline

SpecInline == InitInline /\ [][NextInline]_vars

(***************************************************************************)
(* convertVSCodeMessagesToOpenAI and convertOpenAIMessageToVSCode applied  *)
(* to one message as the editor builds it: text and tool results in a user *)
(* message, text and tool calls in an assistant message, text in a system  *)
(* message.                                                                *)
(***************************************************************************)
\* the tool calls of a wire message whose arguments JSON.parse accepts
RECURSIVE ParsedToolCalls(_)
ParsedToolCalls(toolCalls) ==
    IF toolCalls = <<>> THEN <<>>
    ELSE (IF ArgsValid(Head(toolCalls).arguments)
          THEN <<ToolCallPart(Head(toolCalls).id, Head(toolCalls).name,
                              ArgsValue(Head(toolCalls).arguments))>>
          ELSE <<>>)
         \o ParsedToolCalls(Tail(toolCalls))

ConvertOpenAIMessageToVSCode(message) ==
    [text |-> IF message.content.null THEN <<>> ELSE message.content.text,
     toolCalls |-> ParsedToolCalls(message.tool_calls),
     reasoningContent |-> message.reasoning_content]

UserParts ==
    << TextPart(<<104>>), TextPart(<<>>),
       ToolResultPart("c1", <<TextPart(<<111>>), TextPart(<<112>>)>>),
       ToolResultPart("c2", <<>>) >>

AssistantParts ==
    << TextPart(<<97>>), TextPart(<<>>),
       ToolCallPart("c1", "t", <<107>>), ToolCallPart("c2", "u", <<>>) >>

SystemParts == << TextPart(<<115>>), TextPart(<<>>) >>

PartsOf(role) ==
    IF role = "user" THEN UserParts
    ELSE IF role = "assistant" THEN AssistantParts
    ELSE SystemParts

\* the ThinkingTokensTracker contents the lookup may read
ConversionStores == { EmptyStore, StoreSet(EmptyStore, ToolCallKey("c1"), <<82>>) }

Conversion(pc_, messages, wire, back) ==
    [pc |-> pc_, messages |-> messages, wire |-> wire, back |-> back]

Convert ==
    /\ conversion.pc = "idle"
    /\ \E role \in {"user", "assistant", "system"}, n \in 0..MaxParts :
          \E f \in [1..n -> 1..Len(PartsOf(role))] :
             \E hasLookup \in BOOLEAN, isNew \in BOOLEAN, store \in ConversionStores :
                LET messages == <<Message(role, [i \in 1..n |-> PartsOf(role)[f[i]]])>>
                IN conversion' =
                      Conversion("wire", messages,
                                 ConvertVSCodeMessagesToOpenAI(messages, hasLookup,
                                                               isNew, store),
                                 <<>>)

ConvertBack ==
    /\ conversion.pc = "wire"
    /\ conversion' =
          [conversion EXCEPT
              !.pc = "back",
              !.back = [i \in 1..Len(conversion.wire) |->
                           ConvertOpenAIMessageToVSCode(conversion.wire[i])]]

ConvertDone ==
    /\ conversion.pc = "back"
    /\ conversion' = Conversion("idle", <<>>, <<>>, <<>>)

InitConvert ==
    IdleStreamVars /\ IdleChatVars /\ IdleCountVars /\ IdleInfillVars
    /\ IdleInlineVars /\ IdleConvertVars /\ IdleRoutingVars /\ IdleMergeVars
    /\ IdleFetchVars /\ IdleSessionsVars /\ IdleTurnVars /\ IdleLookupVars
    /\ IdleUrlVars

NextConvert ==
    \/ Convert /\ UNCHANGED exceptConvert
    \/ ConvertBack /\ UNCHANGED exceptConvert
    \/ ConvertDone /\ UNCHANGED exceptConvert

SpecConvert == InitConvert /\ [][NextConvert]_vars

(***************************************************************************)
(* The converter on messages whose parts are of any kind whatever the      *)
(* role: the content of a LanguageModelChatMessage is an array of text,    *)
(* tool-call and tool-result parts for every role, and the function        *)
(* filters the three kinds out of every message before it looks at the     *)
(* role.                                                                   *)
(***************************************************************************)
AnyRoleParts ==
    << TextPart(<<104>>), ToolResultPart("c1", <<TextPart(<<111>>)>>),
       ToolResultPart("c2", <<>>), ToolCallPart("c1", "t", <<107>>),
       ToolCallPart("c2", "u", <<>>) >>

ConvertAnyRole ==
    /\ conversion.pc = "idle"
    /\ \E role \in {"user", "assistant", "system"}, n \in 0..MaxParts :
          \E f \in [1..n -> 1..Len(AnyRoleParts)] :
             \E hasLookup \in BOOLEAN, isNew \in BOOLEAN, store \in ConversionStores :
                LET messages == <<Message(role, [i \in 1..n |-> AnyRoleParts[f[i]]])>>
                IN conversion' =
                      Conversion("wire", messages,
                                 ConvertVSCodeMessagesToOpenAI(messages, hasLookup,
                                                               isNew, store),
                                 <<>>)

NextAnyRole ==
    \/ ConvertAnyRole /\ UNCHANGED exceptConvert
    \/ ConvertBack /\ UNCHANGED exceptConvert
    \/ ConvertDone /\ UNCHANGED exceptConvert

SpecAnyRole == InitConvert /\ [][NextAnyRole]_vars

(***************************************************************************)
(* provideLanguageModelChatInformation and the way back through            *)
(* parseModelId and getEndpointConfig.  endpoints is the set of keys of    *)
(* the llamaCopilot.endpoints object; any string can be a key.             *)
(***************************************************************************)
EndpointIds == { <<108>>, <<122>>, <<97, AT, 108>>, <<>> }   \* "l", "z", "a@l", ""

\* ids of chat models a server or the models setting can name
ModelNames == { <<109>>, <<109, AT, 97>> }                   \* "m", "m@a"

\* `${model.id}@${endpointId}`
ExposedId(modelId, endpointId) == modelId \o <<AT>> \o endpointId

\* Mutant of ExposedId: the endpoint comes first.
ExposedIdReversed(modelId, endpointId) == endpointId \o <<AT>> \o modelId

\* models: for every endpoint, the models it lists.  The fields modelId and
\* endpointId record where an id came from.
ProvideLanguageModelChatInformation(endpoints, models) ==
    { [id |-> ExposedId(em[2], em[1]), modelId |-> em[2], endpointId |-> em[1]] :
         em \in { x \in endpoints \X ModelNames : x[2] \in models[x[1]] } }

Routing(pc_, endpoints, listed, picked) ==
    [pc |-> pc_, endpoints |-> endpoints, listed |-> listed, picked |-> picked]

\* The settings are read and the editor asks for the models.
ListModels ==
    /\ routing.pc = "idle"
    /\ \E endpoints \in SUBSET EndpointIds :
          /\ endpoints # {}
          /\ Cardinality(endpoints) <= MaxEndpoints
          /\ \E models \in [endpoints -> SUBSET ModelNames] :
                routing' = Routing("listed", endpoints,
                                   ProvideLanguageModelChatInformation(endpoints, models),
                                   0)

\* The editor makes a request for one of the listed models: parseModelId and
\* getEndpointConfig.
RouteRequest ==
    /\ routing.pc = "listed"
    /\ \E info \in routing.listed :
          routing' = [routing EXCEPT
                         !.pc = "routed",
                         !.picked = [info |-> info,
                                     parsed |-> ParseModelId(info.id),
                                     config |-> GetEndpointConfig(
                                                    routing.endpoints,
                                                    ParseModelId(info.id).endpointId)]]

RouteDone ==
    /\ routing.pc \in {"listed", "routed"}
    /\ routing' = Routing("idle", {}, {}, 0)

InitRouting ==
    IdleStreamVars /\ IdleChatVars /\ IdleCountVars /\ IdleInfillVars
    /\ IdleInlineVars /\ IdleConvertVars /\ IdleRoutingVars /\ IdleMergeVars
    /\ IdleFetchVars /\ IdleSessionsVars /\ IdleTurnVars /\ IdleLookupVars
    /\ IdleUrlVars

NextRouting ==
    \/ ListModels /\ UNCHANGED exceptRouting
    \/ RouteRequest /\ UNCHANGED exceptRouting
    \/ RouteDone /\ UNCHANGED exceptRouting

SpecRouting == InitRouting /\ [][NextRouting]_vars

(***************************************************************************)
(* getMergedModelConfig and the headers and body streamChatCompletion      *)
(* builds from its result.  An object is a function from its keys to their *)
(* values; an absent headers or requestBody is the empty object, which     *)
(* Object.assign treats alike.  Built-in values are 0, configured ones     *)
(* 1..MaxValue.                                                            *)
(***************************************************************************)
\* Mutant of ObjectAssign: the target keeps its own values.
ObjectAssignKeep(target, source) ==
    [k \in (DOMAIN target) \cup (DOMAIN source) |->
        IF k \in DOMAIN target THEN target[k] ELSE source[k]]

\* Object.assign(target, source)
ObjectAssign(target, source) ==
    [k \in (DOMAIN target) \cup (DOMAIN source) |->
        IF k \in DOMAIN source THEN source[k] ELSE target[k]]

EmptyObject == <<>>

\* endpointConfig.models?.[baseModelId], undefined as an object without fields
ModelConfigOf(endpointConfig, baseModelId) ==
    IF baseModelId \in DOMAIN endpointConfig.models
    THEN endpointConfig.models[baseModelId]
    ELSE [headers |-> EmptyObject, requestBody |-> EmptyObject]

GetMergedModelConfig(endpointConfig, baseModelId) ==
    [headers |->
        ObjectAssign(ObjectAssign(EmptyObject, endpointConfig.headers),
                     ModelConfigOf(endpointConfig, baseModelId).headers),
     requestBody |->
        ObjectAssign(ObjectAssign(EmptyObject, endpointConfig.requestBody),
                     ModelConfigOf(endpointConfig, baseModelId).requestBody)]

\* the body before the overrides: stream and the other built-in fields
DefaultRequestBody == [k \in {"stream"} |-> 0]

\* the headers before the overrides
DefaultHeaders(apiToken) ==
    [k \in {"Content-Type"} \cup (IF apiToken THEN {"Authorization"} ELSE {}) |-> 0]

RequestBody(endpointRequestBody) == ObjectAssign(DefaultRequestBody, endpointRequestBody)

RequestHeaders(apiToken, endpointHeaders) ==
    ObjectAssign(DefaultHeaders(apiToken), endpointHeaders)

BodyKeys == {"stream", "temperature"}
HeaderKeys == {"Authorization", "X-Key"}
Values == 1..MaxValue

ObjectsOver(keys) == UNION { [ks -> Values] : ks \in SUBSET keys }

Merging(pc_, endpointConfig, baseModelId, apiToken, merged, headers, body) ==
    [pc |-> pc_, endpointConfig |-> endpointConfig, baseModelId |-> baseModelId,
     apiToken |-> apiToken, merged |-> merged, headers |-> headers, body |-> body]

\* provideLanguageModelChatResponse reads the merged configuration of the
\* requested model; the model "m" has a models entry or has none.
MergeConfig ==
    /\ merging.pc = "idle"
    /\ \E endpointHeaders \in ObjectsOver(HeaderKeys),
          endpointBody \in ObjectsOver(BodyKeys),
          configured \in BOOLEAN, apiToken \in BOOLEAN :
          \E modelHeaders \in IF configured THEN ObjectsOver(HeaderKeys) ELSE {EmptyObject},
             modelBody \in IF configured THEN ObjectsOver(BodyKeys) ELSE {EmptyObject} :
             LET endpointConfig ==
                    [headers |-> endpointHeaders, requestBody |-> endpointBody,
                     models |-> IF configured
                                THEN [m \in {"m"} |-> [headers |-> modelHeaders,
                                                       requestBody |-> modelBody]]
                                ELSE EmptyObject]
             IN merging' = Merging("merged", endpointConfig, "m", apiToken,
                                   GetMergedModelConfig(endpointConfig, "m"),
                                   EmptyObject, EmptyObject)

\* streamChatCompletion builds the headers and the body of its request.
BuildRequest ==
    /\ merging.pc = "merged"
    /\ merging' = [merging EXCEPT
                      !.pc = "sent",
                      !.headers = RequestHeaders(merging.apiToken, merging.merged.headers),
                      !.body = RequestBody(merging.merged.requestBody)]

MergeDone ==
    /\ merging.pc = "sent"
    /\ merging' = [pc |-> "idle"]

InitMerge ==
    IdleStreamVars /\ IdleChatVars /\ IdleCountVars /\ IdleInfillVars
    /\ IdleInlineVars /\ IdleConvertVars /\ IdleRoutingVars /\ IdleMergeVars
    /\ IdleFetchVars /\ IdleSessionsVars /\ IdleTurnVars /\ IdleLookupVars
    /\ IdleUrlVars

NextMerge ==
    \/ MergeConfig /\ UNCHANGED exceptMerge
    \/ BuildRequest /\ UNCHANGED exceptMerge
    \/ MergeDone /\ UNCHANGED exceptMerge

SpecMerge == InitMerge /\ [][NextMerge]_vars

(***************************************************************************)
(* errorUtils: getErrorCode and normalizeFetchError.  An error is the      *)
(* sequence of the words of its message and the chain error, error.cause,  *)
(* error.cause.cause, ... of objects, each with a string code or with none *)
(* (""); a returned message is the sequence of its phrases.                *)
(***************************************************************************)
NoCode == ""

\* the code of the first object of the chain that has one
RECURSIVE GetErrorCode(_)
GetErrorCode(chain) ==
    IF chain = <<>> THEN NoCode
    ELSE IF Head(chain) # NoCode THEN Head(chain)
    ELSE GetErrorCode(Tail(chain))

TimeoutCodes ==
    {"ETIMEDOUT", "UND_ERR_BODY_TIMEOUT", "UND_ERR_HEADERS_TIMEOUT",
     "UND_ERR_CONNECT_TIMEOUT"}

\* /timeout/i.test(rawMessage)
MatchesTimeout(message) ==
    \E i \in 1..Len(message) : message[i] \in {"timeout", "Timeout"}

\* /fetch\s+failed/i or /Failed\s+to\s+fetch/i
MatchesFetchFailed(message) ==
    \E i \in 1..Len(message) : message[i] \in {"fetch failed", "Failed to fetch"}

IsFetchError(error) ==
    MatchesFetchFailed(error.message) \/ Len(error.chain) > 1

IsTimeout(error) ==
    GetErrorCode(error.chain) \in TimeoutCodes \/ MatchesTimeout(error.message)

UrlSuffix(requestUrl) == IF requestUrl THEN <<"Request URL:", "url", ".">> ELSE <<>>

NotNormalized == [defined |-> FALSE, text |-> <<>>]
Normalized(text) == [defined |-> TRUE, text |-> text]

TimeoutMessage ==
    <<"The request timed out.", "Increase the extension Request timeout",
      "(Settings -> Llama Copilot)", ".">>

NormalizeFetchError(error, requestUrl) ==
    IF ~error.isError \/ ~IsFetchError(error) THEN NotNormalized
    ELSE IF IsTimeout(error) THEN Normalized(TimeoutMessage)
    ELSE IF GetErrorCode(error.chain) = "ECONNREFUSED"
    THEN Normalized(<<"Cannot connect to the server.", "Is llama-server running?">>
                    \o UrlSuffix(requestUrl))
    ELSE IF GetErrorCode(error.chain) = "ENOTFOUND"
    THEN Normalized(<<"Host could not be found.", "Check the server URL and network.">>
                    \o UrlSuffix(requestUrl))
    ELSE IF GetErrorCode(error.chain) = "ECONNRESET"
    THEN Normalized(<<"Connection was reset.",
                      "The server may have closed the connection.">>
                    \o UrlSuffix(requestUrl))
    ELSE IF MatchesFetchFailed(error.message)
    THEN Normalized(<<"Connection to the server failed.",
                      "Check the URL and that llama-server is running.">>
                    \o UrlSuffix(requestUrl))
    ELSE Normalized(<<"Network error:">>
                    \o (IF error.message = <<>> THEN <<"Unknown error">>
                        ELSE error.message)
                    \o <<".">> \o UrlSuffix(requestUrl))

ErrorCodes ==
    TimeoutCodes \cup {"ECONNREFUSED", "ENOTFOUND", "ECONNRESET", "EPIPE", NoCode}

ErrorWords == {"fetch failed", "Failed to fetch", "timeout", "Timeout", "boom"}

SeqsUpTo(S, n) == UNION { [1..k -> S] : k \in 0..n }

\* what is thrown: an Error with its message and chain, or a value that is
\* not an Error
Throwables ==
    { [isError |-> TRUE, message |-> e[1], chain |-> <<e[2]>> \o e[3]] :
         e \in SeqsUpTo(ErrorWords, MaxWords) \X ErrorCodes
               \X SeqsUpTo(ErrorCodes, MaxCauses) }
    \cup { [isError |-> FALSE, message |-> <<"boom">>, chain |-> <<NoCode>>] }

Normalize ==
    /\ normalizing.pc = "idle"
    /\ \E error \in Throwables, requestUrl \in BOOLEAN :
          normalizing' = [pc |-> "done", error |-> error, requestUrl |-> requestUrl,
                          result |-> NormalizeFetchError(error, requestUrl)]

NormalizeDone ==
    /\ normalizing.pc = "done"
    /\ normalizing' = [pc |-> "idle"]

InitFetch ==
    IdleStreamVars /\ IdleChatVars /\ IdleCountVars /\ IdleInfillVars
    /\ IdleInlineVars /\ IdleConvertVars /\ IdleRoutingVars /\ IdleMergeVars
    /\ IdleFetchVars /\ IdleSessionsVars /\ IdleTurnVars /\ IdleLookupVars
    /\ IdleUrlVars

NextFetch ==
    \/ Normalize /\ UNCHANGED exceptFetch
    \/ NormalizeDone /\ UNCHANGED exceptFetch

SpecFetch == InitFetch /\ [][NextFetch]_vars

(***************************************************************************)
(* Two conversations of the editor served by the one provider, a call at a *)
(* time.  A conversation numbers its tool calls itself: the call ids are   *)
(* unique within a conversation only.  The thinking a server sends is      *)
(* tagged with the conversation and its user turn, to tell where reasoning *)
(* content came from.                                                      *)
(***************************************************************************)
Conversations == {"A", "B"}

CallIds == <<"c1", "c2", "c3", "c4">>

RECURSIVE CountWhere(_, _)
CountWhere(history, role) ==
    IF history = <<>> THEN 0
    ELSE (IF Head(history).role = role /\ ~HasToolResults(Head(history)) THEN 1 ELSE 0)
         + CountWhere(Tail(history), role)

\* the number of user turns of a history
UserTurns(history) == CountWhere(history, "user")

\* the id the model gives the next tool call of a conversation
NextCallId(history) == CallIds[CountWhere(history, "assistant") + 1]

ConversationCode(c) == IF c = "A" THEN 65 ELSE 66

ThinkingTag(c, history) == <<ConversationCode(c), UserTurns(history)>>

AwaitsResults(history) ==
    history # <<>> /\ history[Len(history)].role = "assistant"
                   /\ HasToolCalls(history[Len(history)])

\* one tool result for every tool call of the last message
ResultsFor(msg) ==
    LET calls == SelectParts(msg.content, "toolCall")
    IN Message("user", [i \in 1..Len(calls) |->
                           ToolResultPart(calls[i].callId, <<TextPart(<<111>>)>>)])

SessionEvents(c) ==
    { TextEvent(<<88>>), ThinkingEvent(ThinkingTag(c, sessions.history[c])),
      ToolCallEvent(NextCallId(sessions.history[c]), "t", <<107>>) }

\* The user of conversation c sends a message.
Ask(c) ==
    /\ nCalls < MaxTurns
    /\ ~AwaitsResults(sessions.history[c])
    /\ BeginCall(Configured, Append(sessions.history[c], UserAsks), <<"t">>, FALSE)
    /\ sessions' = [sessions EXCEPT !.history[c] = Append(@, UserAsks),
                                    !.stored[c] = {}, !.current = c]

\* The editor has run the tools of conversation c and sends the results.
Continue(c) ==
    /\ nCalls < MaxTurns
    /\ AwaitsResults(sessions.history[c])
    /\ LET history == Append(sessions.history[c],
                             ResultsFor(sessions.history[c][Len(sessions.history[c])]))
       IN /\ BeginCall(Configured, history, <<"t">>, FALSE)
          /\ sessions' = [sessions EXCEPT !.history[c] = history, !.current = c]

\* The stream yields an event, not more than one tool call in a response.
SessionYield(e) ==
    /\ pc = "streaming"
    /\ IsToolCall(e) => \A i \in 1..Len(reported) : ~IsCallPart(reported[i])
    /\ StreamYield(e)
    /\ sessions' = [sessions EXCEPT
                       !.stored[sessions.current] =
                           IF StoresThinking(call, e) THEN @ \cup {e.callId} ELSE @]

SessionEnd ==
    /\ StreamEnd
    /\ UNCHANGED sessions

\* The call returns; the editor adds what was reported to the conversation.
SessionReturn ==
    /\ Return
    /\ sessions' = [sessions EXCEPT
                       !.history[sessions.current] =
                           IF reported = <<>> THEN @
                           ELSE Append(@, Message("assistant", reported)),
                       !.current = "none"]

InitSessions ==
    IdleStreamVars /\ InitChatVars /\ IdleCountVars /\ IdleInfillVars
    /\ IdleInlineVars /\ IdleConvertVars /\ IdleRoutingVars /\ IdleMergeVars
    /\ IdleFetchVars /\ IdleSessionsVars /\ IdleTurnVars /\ IdleLookupVars
    /\ IdleUrlVars

NextSessions ==
    \/ \E c \in Conversations : Ask(c) /\ UNCHANGED exceptSessions
    \/ \E c \in Conversations : Continue(c) /\ UNCHANGED exceptSessions
    \/ /\ sessions.current # "none"
       /\ \E e \in SessionEvents(sessions.current) :
             SessionYield(e) /\ UNCHANGED exceptSessions
    \/ SessionEnd /\ UNCHANGED exceptSessions
    \/ SessionReturn /\ UNCHANGED exceptSessions

SpecSessions == InitSessions /\ [][NextSessions]_vars

(***************************************************************************)
(* One conversation, turn by turn, with the events each for-await loop has *)
(* handled kept as history: a first request, and the request the editor    *)
(* sends with the result of the tool call "c1".                            *)
(***************************************************************************)
TurnHistories ==
    { <<UserAsks>>, <<UserAsks, AssistantCalls("c1"), UserReturns("c1")>> }

\* the thinking of the follow-up stream, unlike that of the initial stream
FollowUpThought == <<81>>

FollowUpEvents ==
    { TextEvent(<<88>>), ThinkingEvent(FollowUpThought),
      ToolCallEvent("c2", "t", <<107>>) }

\* The user asks (the first call), or the editor has run the tool call "c1"
\* that the first call reported and sends its result (the second call).
TurnBegin(messages) ==
    /\ IF Len(messages) = 1 THEN nCalls = 0
       ELSE /\ nCalls = 1
            /\ \E i \in 1..Len(taken.initial) : taken.initial[i].callId = "c1"
    /\ BeginCall(Configured, messages, <<"t">>, rulesTool)
    /\ taken' = [previous |-> taken.initial, initial |-> <<>>, followup |-> <<>>]

\* The initial stream yields e; a stream gives every tool call its own id.
TurnYield(e) ==
    /\ Len(taken.initial) < MaxInitialEvents
    /\ \A i \in 1..Len(taken.initial) : IsToolCall(e) => taken.initial[i] # e
    /\ YieldEvent(e)
    /\ taken' = [taken EXCEPT !.initial = Append(@, e)]

TurnEnd ==
    /\ StreamEnd
    /\ UNCHANGED taken

TurnFollowUp(e) ==
    /\ Len(taken.followup) < MaxFollowUpEvents
    /\ FollowUpEvent(e)
    /\ taken' = [taken EXCEPT !.followup = Append(@, e)]

TurnFollowUpEnd ==
    /\ FollowUpEnd
    /\ UNCHANGED taken

\* A stream of the call throws.
TurnError ==
    /\ StreamError(<<ERRORWORD>>)
    /\ UNCHANGED taken

TurnReturn ==
    /\ Return
    /\ UNCHANGED taken

InitTurn ==
    IdleStreamVars /\ InitChatVars /\ IdleCountVars /\ IdleInfillVars
    /\ IdleInlineVars /\ IdleConvertVars /\ IdleRoutingVars /\ IdleMergeVars
    /\ IdleFetchVars /\ IdleSessionsVars /\ IdleTurnVars /\ IdleLookupVars
    /\ IdleUrlVars

NextTurn ==
    \/ \E messages \in TurnHistories : TurnBegin(messages) /\ UNCHANGED exceptTurn
    \/ \E e \in ChatEvents : TurnYield(e) /\ UNCHANGED exceptTurn
    \/ TurnEnd /\ UNCHANGED exceptTurn
    \/ \E e \in FollowUpEvents : TurnFollowUp(e) /\ UNCHANGED exceptTurn
    \/ TurnFollowUpEnd /\ UNCHANGED exceptTurn
    \/ TurnError /\ UNCHANGED exceptTurn
    \/ TurnReturn /\ UNCHANGED exceptTurn

SpecTurn == InitTurn /\ [][NextTurn]_vars

(***************************************************************************)
(* ThinkingTokensTracker.getForMessage on its own: a store and an          *)
(* assistant message, drawn from small sets.                               *)
(***************************************************************************)
LookupIds == {"c1", "c2"}

\* set() is only called with a non-empty text (part_004:397, 447)
LookupStores ==
    UNION {[{ToolCallKey(id) : id \in ids} -> {<<82>>, <<81>>}] :
              ids \in SUBSET LookupIds}

LookupParts ==
    {TextPart(<<97>>)} \cup {ToolCallPart(id, "t", <<107>>) : id \in LookupIds}

LookupMessages ==
    {Message("assistant", content) :
        content \in UNION {[1..n -> LookupParts] : n \in 0..MaxParts}}

Lookup ==
    /\ lookup.pc = "idle"
    /\ \E store \in LookupStores, msg \in LookupMessages :
          lookup' = [pc |-> "returned", store |-> store, msg |-> msg,
                     result |-> GetForMessage(store, msg)]

LookupDone ==
    /\ lookup.pc = "returned"
    /\ lookup' = [pc |-> "idle", store |-> <<>>, msg |-> <<>>, result |-> <<>>]

InitLookup ==
    IdleStreamVars /\ IdleChatVars /\ IdleCountVars /\ IdleInfillVars
    /\ IdleInlineVars /\ IdleConvertVars /\ IdleRoutingVars /\ IdleMergeVars
    /\ IdleFetchVars /\ IdleSessionsVars /\ IdleTurnVars /\ IdleLookupVars
    /\ IdleUrlVars

NextLookup ==
    \/ Lookup /\ UNCHANGED exceptLookup
    \/ LookupDone /\ UNCHANGED exceptLookup

SpecLookup == InitLookup /\ [][NextLookup]_vars

(***************************************************************************)
(* normalizeEndpointUrl of the extension's activation: the configured URL  *)
(* is trimmed, then one trailing "/v1" is cut off if the text ends with    *)
(* it, and then one trailing "/" is cut off if the text ends with it.      *)
(* normalizeEndpoints applies it to the url of every configured endpoint.  *)
(***************************************************************************)
V1Suffix == <<SLASH, 118, 49>>

\* the characters of a configured URL: '/', 'v', '1', ' ' and 'h'
UrlChars == {SLASH, 118, 49, SPACE, 104}

EndsWith(s, p) ==
    Len(s) >= Len(p) /\ SubSeq(s, Len(s) - Len(p) + 1, Len(s)) = p

\* s.slice(0, -n)
SliceOff(s, n) == SubSeq(s, 1, Len(s) - n)

NormalizeEndpointUrl(url) ==
    LET trimmed == Trim(url)
        noV1 == IF EndsWith(trimmed, V1Suffix) THEN SliceOff(trimmed, 3)
                ELSE trimmed
    IN IF EndsWith(noV1, <<SLASH>>) THEN SliceOff(noV1, 1) ELSE noV1

ConfiguredUrls == UNION { [1..n -> UrlChars] : n \in 0..MaxUrlLen }

Endpoint(pc_, url, once, twice) ==
    [pc |-> pc_, url |-> url, once |-> once, twice |-> twice]

\* normalizeEndpoints on the configuration read at activation or on a change
NormalizeUrl ==
    /\ endpoint.pc = "idle"
    /\ \E url \in ConfiguredUrls :
          endpoint' = Endpoint("once", url, NormalizeEndpointUrl(url), <<>>)

\* the function applied to its own result
NormalizeAgain ==
    /\ endpoint.pc = "once"
    /\ endpoint' = [endpoint EXCEPT !.pc = "twice",
                                    !.twice = NormalizeEndpointUrl(endpoint.once)]

NormalizeUrlDone ==
    /\ endpoint.pc = "twice"
    /\ endpoint' = Endpoint("idle", <<>>, <<>>, <<>>)

InitUrl ==
    IdleStreamVars /\ IdleChatVars /\ IdleCountVars /\ IdleInfillVars
    /\ IdleInlineVars /\ IdleConvertVars /\ IdleRoutingVars /\ IdleMergeVars
    /\ IdleFetchVars /\ IdleSessionsVars /\ IdleTurnVars /\ IdleLookupVars
    /\ IdleUrlVars

NextUrl ==
    \/ NormalizeUrl /\ UNCHANGED exceptUrl
    \/ NormalizeAgain /\ UNCHANGED exceptUrl
    \/ NormalizeUrlDone /\ UNCHANGED exceptUrl

SpecUrl == InitUrl /\ [][NextUrl]_vars





(***************************************************************************)
(* Properties of the provider.                                             *)
(***************************************************************************)
IsRuleCallPart(p) == IsCallPart(p) /\ p.name = CURSOR_RULES_TOOL_NAME

InFlight == pc # "idle"

Settled == pc \in {"done", "failed", "cancelled"}

\* the trailing message is not a user message carrying a tool result
TrailingIsNotToolResult(messages) ==
    \/ messages = <<>>
    \/ messages[Len(messages)].role # "user"
    \/ ~HasToolResults(messages[Len(messages)])

CallIdsOf(msg) ==
    {msg.content[i].callId : i \in {j \in 1..Len(msg.content) : IsCallPart(msg.content[j])}}

ResultIdsOf(msg) ==
    {msg.content[i].callId : i \in {j \in 1..Len(msg.content) : IsResultPart(msg.content[j])}}

\* the call ids of the last assistant message that has tool calls
NearestCallIds(messages) ==
    LET withCalls == {i \in 1..Len(messages) :
                        messages[i].role = "assistant" /\ HasToolCalls(messages[i])}
    IN  IF withCalls = {} THEN {}
        ELSE CallIdsOf(messages[CHOOSE i \in withCalls : \A j \in withCalls : j <= i])

\* C5: even with the rules tool initialised, so that interception is active,
\* no tool call named 'get-project-rule' is ever passed to progress.report,
\* in the initial stream or in the follow-up stream.
C5_RuleToolNeverReported ==
    rulesTool => \A i \in 1..Len(reported) : ~IsRuleCallPart(reported[i])

\* C6 (as the code has it): a call issues at most two streaming requests,
\* the initial one and then a follow-up; the follow-up is issued exactly when
\* the initial stream ran to its end with at least one intercepted rule call;
\* its tool list is the caller's without 'get-project-rule'; nothing the
\* follow-up stream yields adds a request.
C6_FollowUpAfterInterception ==
    InFlight =>
        /\ Len(requests) <= 2
        /\ \A i \in 1..Len(requests) :
              requests[i].phase = IF i = 1 THEN "initial" ELSE "followup"
        /\ Len(requests) = 2 <=>
              (call.streamEnded /\ call.cursorRulesToolCalls # <<>>)
        /\ Len(requests) = 2 =>
              /\ CURSOR_RULES_TOOL_NAME \notin Range(requests[2].tools)
              /\ requests[2].tools = SelectSeq(call.tools,
                                        LAMBDA t : t # CURSOR_RULES_TOOL_NAME)

\* C6 as claimed: once the call has settled, a follow-up request was issued
\* if and only if the initial stream produced an intercepted rule call.
C6_AsClaimed ==
    Settled => (Len(requests) = 2 <=> call.cursorRulesToolCalls # <<>>)

\* a follow-up was issued for a caller that passed 'get-project-rule' itself,
\* the follow-up stream called that tool again, and the call is over
C6_Witness ==
    /\ pc = "done"
    /\ Len(requests) = 2
    /\ CURSOR_RULES_TOOL_NAME \in Range(call.tools)
    /\ \E i \in 1..Len(reported) : IsRuleCallPart(reported[i])

\* C7 (as the code has it): a request whose trailing message is a user
\* message without tool results has the store cleared before its request is
\* built; for every other request, an empty history and a trailing assistant
\* message included, the store is left as it was.
C7_NewUserMessageClears ==
    requests # <<>> =>
        /\ requests[1].isNewUserMessage = IsNewUserMessage(requests[1].messages)
        /\ IsNewUserMessage(requests[1].messages) => requests[1].store = EmptyStore
        /\ ~IsNewUserMessage(requests[1].messages)
              => requests[1].store = requests[1].storeBefore

\* C7 as claimed: every request whose trailing message is not a user message
\* with a tool result finds the store cleared when its request is built.
C7_AsClaimed ==
    (requests # <<>> /\ TrailingIsNotToolResult(requests[1].messages))
        => requests[1].store = EmptyStore

\* a new user message arrived while the store held thinking
C7_Witness ==
    /\ requests # <<>>
    /\ IsNewUserMessage(requests[1].messages)
    /\ requests[1].storeBefore # EmptyStore
    /\ tokens = EmptyStore

\* C8 (as the code has it): shouldInclude is false for an empty history and
\* for a trailing user message without tool results, whatever the store
\* holds when a call begins; and a request is given the lookup only if, since the last request
\* with a new user message, thinking was stored for a tool call of its
\* nearest assistant message with tool calls.
C8_IncludeOnlyAfterStoredThinking ==
    /\ pc = "idle" =>
          \A h \in Histories :
              (h = <<>> \/ IsNewUserMessage(h)) => ~ShouldInclude(tokens, h)
    /\ requests # <<>> =>
          /\ (requests[1].messages = <<>> \/ IsNewUserMessage(requests[1].messages))
                => ~requests[1].hasLookup
          /\ requests[1].hasLookup
                => NearestCallIds(requests[1].messages) \cap requests[1].fresh # {}

\* C8 as claimed: shouldInclude is false for every request whose trailing
\* message is not a user message with a tool result, and it is true only when
\* the trailing message is a user message carrying the tool result of a call
\* whose thinking was stored since the last new turn.
C8_AsClaimed ==
    requests # <<>> =>
        /\ TrailingIsNotToolResult(requests[1].messages) => ~requests[1].hasLookup
        /\ requests[1].hasLookup =>
              /\ ~TrailingIsNotToolResult(requests[1].messages)
              /\ ResultIdsOf(requests[1].messages[Len(requests[1].messages)])
                    \cap requests[1].fresh # {}

\* the round trip: thinking was stored for call c1, and the request that
\* brings c1's result back is given the lookup
C8_Witness ==
    /\ requests # <<>>
    /\ requests[1].hasLookup
    /\ ~TrailingIsNotToolResult(requests[1].messages)
    /\ "c1" \in requests[1].fresh

\* C9: no wire message of a request carries reasoning_content when the
\* request is a new user message or has no lookup; conversion never sets it
\* in those cases, whatever the store holds when a call begins; the initial request of a new
\* user message has no lookup, and the follow-up request has none.
C9_NoReasoningWithoutLookup ==
    /\ pc = "idle" =>
          \A h \in Histories :
              /\ ~HasReasoning(ConvertVSCodeMessagesToOpenAI(h, TRUE, TRUE, tokens))
              /\ ~HasReasoning(ConvertVSCodeMessagesToOpenAI(h, FALSE, TRUE, tokens))
              /\ ~HasReasoning(ConvertVSCodeMessagesToOpenAI(h, FALSE, FALSE, tokens))
    /\ \A i \in 1..Len(requests) :
          /\ (requests[i].isNewUserMessage \/ ~requests[i].hasLookup)
                => ~HasReasoning(requests[i].wire)
          /\ requests[i].phase = "followup" => ~requests[i].hasLookup
          /\ (requests[i].phase = "initial" /\ IsNewUserMessage(requests[i].messages))
                => ~requests[i].hasLookup

\* an initial request went out with reasoning_content, and the follow-up of
\* the same call, over the same history and store, went out without
C9_Witness ==
    /\ Len(requests) = 2
    /\ HasReasoning(requests[1].wire)
    /\ ~HasReasoning(requests[2].wire)
    /\ HasReasoning(ConvertVSCodeMessagesToOpenAI(requests[2].messages, TRUE, FALSE,
                                                  requests[2].store))

\* C10: once the token is cancelled, the call reports nothing more: no
\* streamed event, no synthesized rule text, no follow-up event.
C10_NoReportAfterCancel ==
    [][(cancelled /\ pc' \notin {"idle", "failed"}) => reported' = reported]_vars

\* C11: a cancellation is observed at the next chunk boundary, whether or
\* not that chunk yields an event, and a call stopped by cancellation has
\* aborted its HTTP connection.
C11_CancelObservedAndAborted ==
    /\ pc \in {"streaming", "followup"} => ~(cancelled /\ call.passed)
    /\ pc = "cancelled" => call.connection = "aborted"

\* C12: the reader the parse loop acquired is locked exactly while the loop
\* reads, and released once the loop is left, by whichever exit: the
\* transport is exhausted, a finish_reason 'stop' returns, the consumer
\* returns early, or reader.read() throws.
C12_ReaderReleasedOnExit ==
    /\ spc = "reading" => reader = "locked"
    /\ spc \in {"done", "returned", "abandoned", "threw"} /\ reader # "none"
          => reader = "released"

\* the consumer left at an event while bytes of the stream were still to
\* come, and the reader is released
C12_Witness ==
    /\ spc = "abandoned"
    /\ pos < Len(stream)
    /\ events # <<>>
    /\ reader = "released"

\* C13: a call that failed has thrown one error and reported, as its last
\* part and nowhere else, one text part with that error's message; the
\* message is the caught one when that already names the settings page, and
\* the caught one followed by the hint otherwise.  A call that has not
\* failed has thrown nothing.
C13_OneErrorReportedAndThrown ==
    /\ pc = "failed" =>
          /\ call.thrown = IF SETTINGS \in Range(call.error) THEN call.error
                           ELSE call.error \o HintWords
          /\ Cardinality({i \in 1..Len(call.thrown) : call.thrown[i] = SETTINGS}) = 1
          /\ reported # <<>>
          /\ reported[Len(reported)] = TextPart(call.thrown)
          /\ \A i \in 1..(Len(reported) - 1) : reported[i] # TextPart(call.thrown)
    /\ pc \in {"streaming", "followup", "done", "cancelled"} => call.thrown = <<>>

\* a stream failed after an event was reported, with a message that already
\* names the settings page: it is reported and thrown as it is
C13_Witness ==
    /\ pc = "failed"
    /\ Len(reported) >= 2
    /\ SETTINGS \in Range(call.error)
    /\ call.thrown = call.error

\* C14: a call whose model id has no '@', or has its last '@' as first or
\* last character, or names after its last '@' an endpoint that is not
\* configured, has failed: it issued no request, opened no connection and
\* took no event.
NotRoutable(modelId) ==
    \/ LastIndexOfAt(modelId) \in {0, 1, Len(modelId)}
    \/ SubSeq(modelId, LastIndexOfAt(modelId) + 1, Len(modelId)) \notin Endpoints

FailedBeforeRequest ==
    /\ pc = "failed"
    /\ requests = <<>>
    /\ call.connection = "none"
    /\ call.nEvents = 0

C14_FailsBeforeRequest ==
    pc # "idle" /\ NotRoutable(call.modelId) => FailedBeforeRequest

\* C14 as stated: so does a call whose model id has '@' as its first
\* character.
C14_AsClaimed ==
    pc # "idle" /\ (NotRoutable(call.modelId) \/ call.modelId[1] = AT)
        => FailedBeforeRequest

\* a call for "m@z", an endpoint that is not configured, has failed
C14_Witness ==
    /\ pc = "failed"
    /\ LastIndexOfAt(call.modelId) = 2
    /\ Len(call.modelId) = 3
    /\ call.modelId[3] \notin {108, 99}
    /\ requests = <<>>

\* C15: provideTokenCount never throws; it returns the length of the tokens
\* array when the model id is routable and the server answered 2xx with a
\* JSON body that has one, and 0 in every other case.
C15_TokenCountNeverThrows ==
    counting.pc = "returned" =>
        /\ ~counting.outcome.threw
        /\ counting.outcome.value =
              IF ~NotRoutable(counting.modelId) /\ counting.response.kind = "tokens"
              THEN Len(counting.response.tokens)
              ELSE 0

\* a call returned 0 after a response outside 2xx, and a call returned the
\* length of a non-empty tokens array
C15_WitnessFailure ==
    /\ counting.pc = "returned"
    /\ counting.response.kind = "notOk"
    /\ counting.outcome = Returned(0)

C15_Witness ==
    /\ counting.pc = "returned"
    /\ counting.response.kind = "tokens"
    /\ Len(counting.response.tokens) = MaxTokens
    /\ counting.outcome = Returned(MaxTokens)

(***************************************************************************)
(* contextBuilder: C16 to C19.                                             *)
(***************************************************************************)
IsPrefixOf(p, s) == Len(p) <= Len(s) /\ SubSeq(s, 1, Len(p)) = p
IsSuffixOf(p, s) == Len(p) <= Len(s) /\ SubSeq(s, Len(s) - Len(p) + 1, Len(s)) = p

RECURSIVE ExtraBytes(_)
ExtraBytes(extra) ==
    IF extra = <<>> THEN 0 ELSE ByteLength(Head(extra).text) + ExtraBytes(Tail(extra))

OriginalPrefix == SubSeq(infill.fullText, 1, infill.offset)
OriginalSuffix == SubSeq(infill.fullText, infill.offset + 1, Len(infill.fullText))

HadToTruncate ==
    ByteLength(OriginalPrefix) + ByteLength(OriginalSuffix) > infill.maxInputBytes

\* C16: the prefix, the suffix and the extra texts that buildInfillContext
\* returns have at most maxInputBytes UTF-8 bytes together.
C16_TotalWithinMaxInputBytes ==
    infill.pc = "returned" =>
        ByteLength(infill.result.input_prefix) + ByteLength(infill.result.input_suffix)
            + ExtraBytes(infill.result.input_extra) <= infill.maxInputBytes

\* no byte of buf at position i + 1 continues a character: i is a boundary
IsBoundary(buf, i) == i = Len(buf) \/ ~IsCont(buf[i + 1])

WellFormed(str) == BufferToString(BufferFrom(str)) = str

Budget ==
    infill.maxInputBytes - ByteLength(infill.result.input_prefix)
        - ByteLength(infill.result.input_suffix)

RECURSIVE BytesOfFirst(_, _)
BytesOfFirst(files, n) ==
    IF n = 0 THEN 0 ELSE ByteLength(files[n].text) + BytesOfFirst(files, n - 1)

\* the budget left for file i when the files before it were included whole
RemainingFor(i) == Budget - BytesOfFirst(infill.otherFiles, i - 1)

IncludedWhole(i) ==
    /\ infill.result.input_extra[i] = infill.otherFiles[i]
    /\ ByteLength(infill.otherFiles[i].text) <= RemainingFor(i)

IncludedTruncated(i) ==
    /\ ByteLength(infill.otherFiles[i].text) > RemainingFor(i)
    /\ infill.result.input_extra[i].filename = infill.otherFiles[i].filename
    /\ infill.result.input_extra[i].text
          = TruncateToByteLength(infill.otherFiles[i].text, RemainingFor(i))
    /\ infill.result.input_extra[i].text # <<>>

\* C19: input_extra holds the first files of otherFiles, in their order, each
\* taken while budget was left; all but the last are whole, the last is whole
\* or is the first file that did not fit, cut on a character boundary to at
\* most the budget left; and a file is left out only when no budget is left,
\* or the file before it was cut, or it is the first that does not fit and
\* nothing of it fits.
C19_ExtraInCallerOrder ==
    infill.pc = "returned" =>
        LET extra == infill.result.input_extra
            k == Len(infill.result.input_extra)
        IN  /\ k <= Len(infill.otherFiles)
            /\ \A i \in 1..k : RemainingFor(i) > 0
            /\ \A i \in 1..(k - 1) : IncludedWhole(i)
            /\ k >= 1 => IncludedWhole(k) \/ IncludedTruncated(k)
            /\ k < Len(infill.otherFiles) =>
                  \/ RemainingFor(k + 1) <= 0
                  \/ k >= 1 /\ IncludedTruncated(k)
                  \/ /\ ByteLength(infill.otherFiles[k + 1].text) > RemainingFor(k + 1)
                     /\ TruncateToByteLength(infill.otherFiles[k + 1].text,
                                             RemainingFor(k + 1)) = <<>>

\* The files as the claim includes them.
RECURSIVE ClaimedExtra(_, _)
ClaimedExtra(files, budget) ==
    IF files = <<>> THEN <<>>
    ELSE IF ByteLength(Head(files).text) <= budget
         THEN <<Head(files)>>
                  \o ClaimedExtra(Tail(files), budget - ByteLength(Head(files).text))
    ELSE IF TruncateToByteLength(Head(files).text, budget) = <<>> THEN <<>>
    ELSE <<File(Head(files).filename, TruncateToByteLength(Head(files).text, budget))>>

\* C19 as stated: every file that fits the remaining budget is included
\* whole, and the first that does not fit is cut to exactly that budget.
C19_AsClaimed ==
    infill.pc = "returned" =>
        /\ infill.result.input_extra = ClaimedExtra(infill.otherFiles, Budget)
        /\ \A i \in 1..Len(infill.result.input_extra) :
              infill.result.input_extra[i] # infill.otherFiles[i]
                  => ByteLength(infill.result.input_extra[i].text) = RemainingFor(i)

\* one file was included whole, the next was cut to the budget left, and a
\* third file was left out
C19_Witness ==
    /\ infill.pc = "returned"
    /\ Len(infill.otherFiles) = 3
    /\ Len(infill.result.input_extra) = 2
    /\ IncludedWhole(1)
    /\ IncludedTruncated(2)

(***************************************************************************)
(* InlineCompletionProvider: C20.                                          *)
(***************************************************************************)
\* What the debounce does guarantee: an automatic call sends its request
\* only after the whole delay, never once its token was cancelled while the
\* timer was set, and an explicit call sends it at once.
C20_DelayAndCancellation ==
    \A i \in 1..Len(completions) :
        /\ completions[i].triggerKind = "Automatic" /\ completions[i].infill
              => completions[i].waited = DebounceTicks /\ ~completions[i].stopped
        /\ completions[i].triggerKind = "Invoke"
              => completions[i].infill /\ completions[i].waited = 0

\* C20: an automatic call sends no /infill request once a newer automatic
\* call has arrived before its delay had elapsed, or once the editor has
\* cancelled it while it waited; an explicit call is not delayed.
C20_DebounceSupersedes ==
    \A i \in 1..Len(completions) :
        /\ completions[i].triggerKind = "Automatic"
              /\ (completions[i].superseded \/ completions[i].stopped)
              => ~completions[i].infill
        /\ completions[i].triggerKind = "Invoke"
              => completions[i].infill /\ completions[i].waited = 0

\* two automatic calls arrived within one delay and both reached the server
C20_BothReachTheServer ==
    /\ Len(completions) >= 2
    /\ completions[1].triggerKind = "Automatic" /\ completions[1].superseded
    /\ completions[1].infill
    /\ completions[2].triggerKind = "Automatic" /\ completions[2].infill

(***************************************************************************)
(* Message conversion: C21, C22, C23.                                      *)
(***************************************************************************)
RECURSIVE Flatten(_)
Flatten(seqs) ==
    IF seqs = <<>> THEN <<>> ELSE Head(seqs) \o Flatten(Tail(seqs))

\* the wire messages of the conversion at the given positions
BackTexts(positions) ==
    Flatten([i \in 1..Len(positions) |-> conversion.back[positions[i]].text])
BackToolCalls(positions) ==
    Flatten([i \in 1..Len(positions) |-> conversion.back[positions[i]].toolCalls])

RECURSIVE PositionsWhere(_, _, _)
PositionsWhere(wire, i, withTool) ==
    IF i > Len(wire) THEN <<>>
    ELSE (IF withTool \/ wire[i].role # "tool" THEN <<i>> ELSE <<>>)
         \o PositionsWhere(wire, i + 1, withTool)

ConvertedBack == conversion.pc = "back" /\ ~HasReasoning(conversion.wire)

Converted == conversion.pc \in {"wire", "back"}

NullOrNonEmpty(content) == content.null \/ content.text # <<>>

\* C22: a wire message with a role other than 'tool' has content null or a
\* non-empty string, null exactly when the text of the message is empty; a
\* 'tool' message has the text of its result as content, empty or not.
C22_NullNotEmptyString ==
    Converted =>
        \A i \in 1..Len(conversion.wire) :
            LET w == conversion.wire[i]
            IN /\ w.role # "tool" => NullOrNonEmpty(w.content)
               /\ w.role # "tool" =>
                     (w.content.null <=> JoinText(conversion.messages[1].content) = <<>>)
               /\ w.role = "tool" => ~w.content.null

\* C22 as stated: no wire message at all has the empty string as content
C22_AsClaimed ==
    Converted =>
        \A i \in 1..Len(conversion.wire) : NullOrNonEmpty(conversion.wire[i].content)

\* a message with parts but no text was converted to null content
C22_Witness ==
    /\ Converted
    /\ conversion.messages[1].content # <<>>
    /\ \E i \in 1..Len(conversion.wire) :
          conversion.wire[i].role # "tool" /\ conversion.wire[i].content.null

\* C23: a user message with k >= 1 tool-result parts becomes k 'tool'
\* messages, one per result in order with its call id and text, followed by
\* one 'user' message with the residual text exactly when that is non-empty.
C23_ToolResultsExploded ==
    Converted /\ conversion.messages[1].role = "user"
              /\ HasToolResults(conversion.messages[1]) =>
        LET msg == conversion.messages[1]
            results == SelectParts(msg.content, "toolResult")
            k == Len(results)
            text == JoinText(msg.content)
            wire == conversion.wire
        IN /\ Len(wire) = k + (IF text # <<>> THEN 1 ELSE 0)
           /\ \A i \in 1..k :
                 /\ wire[i].role = "tool"
                 /\ wire[i].tool_call_id = results[i].callId
                 /\ ~wire[i].content.null
                 /\ wire[i].content.text = JoinText(results[i].value)
           /\ text # <<>> =>
                 /\ wire[k + 1].role = "user"
                 /\ ~wire[k + 1].content.null
                 /\ wire[k + 1].content.text = text

\* two different results and residual text were converted
C23_Witness ==
    /\ Converted
    /\ conversion.messages[1].role = "user"
    /\ Len(conversion.wire) = 3
    /\ conversion.wire[1].role = "tool" /\ conversion.wire[2].role = "tool"
    /\ conversion.wire[1].tool_call_id # conversion.wire[2].tool_call_id
    /\ conversion.wire[3].role = "user"

(***************************************************************************)
(* Model ids: C24.                                                         *)
(***************************************************************************)
Routed == routing.pc = "routed"

\* What parseModelId does give back: the id of a listed model of an
\* endpoint whose identifier is not empty and holds no '@' is parsed to that
\* model and that endpoint.
C24_ParsedBackWithoutAt ==
    Routed /\ routing.picked.info.endpointId # <<>>
           /\ (\A i \in 1..Len(routing.picked.info.endpointId) :
                  routing.picked.info.endpointId[i] # AT) =>
        /\ routing.picked.parsed.baseModelId = routing.picked.info.modelId
        /\ routing.picked.parsed.endpointId = routing.picked.info.endpointId
        /\ routing.picked.config = "configured"

\* C24: the id of every listed model of every configured endpoint is parsed
\* back to that model and that endpoint, and the request finds the endpoint.
C24_ExposedIdParsedBack ==
    Routed =>
        /\ routing.picked.parsed.baseModelId = routing.picked.info.modelId
        /\ routing.picked.parsed.endpointId = routing.picked.info.endpointId
        /\ routing.picked.config = "configured"

\* a request for a listed model reached the configuration of another endpoint
C24_RoutedElsewhere ==
    /\ Routed
    /\ routing.picked.config = "configured"
    /\ routing.picked.parsed.endpointId # routing.picked.info.endpointId

(***************************************************************************)
(* Overrides: C25.                                                         *)
(***************************************************************************)
\* in result, key k has the value of the first of the objects that defines it
TakesFirstOf(result, k, first, second) ==
    IF k \in DOMAIN first THEN k \in DOMAIN result /\ result[k] = first[k]
    ELSE IF k \in DOMAIN second THEN k \in DOMAIN result /\ result[k] = second[k]
    ELSE k \notin DOMAIN result

\* C25: in the merged headers and requestBody every key has the model-level
\* value when the model config defines it and the endpoint-level value
\* otherwise, and in the body of the request every key has the merged value
\* when there is one and the built-in value otherwise.
C25_ModelOverridesEndpoint ==
    merging.pc \in {"merged", "sent"} =>
        LET modelConfig == ModelConfigOf(merging.endpointConfig, merging.baseModelId)
        IN /\ \A k \in HeaderKeys :
                 TakesFirstOf(merging.merged.headers, k, modelConfig.headers,
                              merging.endpointConfig.headers)
           /\ \A k \in BodyKeys :
                 TakesFirstOf(merging.merged.requestBody, k, modelConfig.requestBody,
                              merging.endpointConfig.requestBody)
           /\ merging.pc = "sent" =>
                 \A k \in BodyKeys \cup DOMAIN DefaultRequestBody :
                    TakesFirstOf(merging.body, k, merging.merged.requestBody,
                                 DefaultRequestBody)

\* a request whose model config overrides the endpoint's temperature and
\* whose endpoint config overrides the built-in stream
C25_Witness ==
    /\ merging.pc = "sent"
    /\ "m" \in DOMAIN merging.endpointConfig.models
    /\ "temperature" \in DOMAIN merging.endpointConfig.requestBody
    /\ "temperature" \in DOMAIN merging.endpointConfig.models["m"].requestBody
    /\ merging.endpointConfig.requestBody["temperature"]
          # merging.endpointConfig.models["m"].requestBody["temperature"]
    /\ "stream" \in DOMAIN merging.endpointConfig.requestBody
    /\ "stream" \notin DOMAIN merging.endpointConfig.models["m"].requestBody
    /\ merging.body["stream"] # 0

(***************************************************************************)
(* Error messages: C26.                                                    *)
(***************************************************************************)
Says(text, phrase) == \E i \in 1..Len(text) : text[i] = phrase

ClassifiedAsTimeout ==
    /\ normalizing.pc = "done"
    /\ normalizing.result.defined
    /\ IsTimeout(normalizing.error)

\* What the timeout message does say: that the request timed out, and to
\* increase the Request timeout under Settings -> Llama Copilot.
C26_TimeoutMessageSaysIncrease ==
    ClassifiedAsTimeout =>
        /\ Says(normalizing.result.text, "The request timed out.")
        /\ Says(normalizing.result.text, "Increase the extension Request timeout")
        /\ Says(normalizing.result.text, "(Settings -> Llama Copilot)")

\* C26: the message for an error classified as a timeout says that the
\* request timed out, tells to increase the Request timeout under
\* Settings -> Llama Copilot, and mentions the server's --timeout option.
C26_TimeoutMessageComplete ==
    ClassifiedAsTimeout =>
        /\ Says(normalizing.result.text, "The request timed out.")
        /\ Says(normalizing.result.text, "Increase the extension Request timeout")
        /\ Says(normalizing.result.text, "(Settings -> Llama Copilot)")
        /\ \E i \in 1..Len(normalizing.result.text) :
              normalizing.result.text[i] \in
                 {"increase llama-server's --timeout", "add --timeout"}

\* an error with a timeout code in its cause was given its message
C26_Witness ==
    /\ ClassifiedAsTimeout
    /\ normalizing.error.chain = <<NoCode, "UND_ERR_BODY_TIMEOUT">>
    /\ ~MatchesTimeout(normalizing.error.message)

(***************************************************************************)
(* Conversations: C27, C28.                                                *)
(***************************************************************************)
\* the running call is the tool-result continuation of its conversation
Continuing ==
    /\ sessions.current # "none"
    /\ requests # <<>>
    /\ HasToolResults(call.messages[Len(call.messages)])

\* C27: thinking stored for a tool call of a conversation is in the store
\* when that conversation sends the results of the call, whatever the other
\* conversation did in between.
C27_ThinkingKeptForContinuation ==
    Continuing =>
        \A id \in sessions.stored[sessions.current]
                      \cap ResultIdsOf(call.messages[Len(call.messages)]) :
            /\ ToolCallKey(id) \in DOMAIN requests[1].storeBefore
            /\ requests[1].storeBefore[ToolCallKey(id)][1]
                  = ConversationCode(sessions.current)

\* conversation A continues after a user turn of B emptied the store
C27_LostAfterOtherTurn ==
    /\ Continuing
    /\ sessions.current = "A"
    /\ sessions.stored["A"] \cap ResultIdsOf(call.messages[Len(call.messages)]) # {}
    /\ sessions.history["B"] # <<>>
    /\ requests[1].storeBefore = EmptyStore

\* text is made of tags of conversation c and its user turn n only
TaggedBy(text, c, n) ==
    \A i \in 1..Len(text) :
        text[i] = IF i % 2 = 1 THEN ConversationCode(c) ELSE n

\* C28: the reasoning content of a request of a conversation is thinking the
\* server sent in that conversation after its last user turn.
C28_ReasoningFromSameConversation ==
    sessions.current # "none" =>
        \A r \in 1..Len(requests) : \A i \in 1..Len(requests[r].wire) :
            TaggedBy(requests[r].wire[i].reasoning_content, sessions.current,
                     UserTurns(sessions.history[sessions.current]))

\* a request of conversation B carries thinking of conversation A
C28_LeakedFromOtherConversation ==
    /\ sessions.current = "B"
    /\ \E r \in 1..Len(requests) : \E i \in 1..Len(requests[r].wire) :
          /\ requests[r].wire[i].reasoning_content # <<>>
          /\ requests[r].wire[i].reasoning_content[1] = ConversationCode("A")

(***************************************************************************)
(* Finish lines: C29, C30.                                                 *)
(***************************************************************************)
\* the generator was neither returned by its consumer nor ended by a throw
Undisturbed == spc \notin {"abandoned", "threw"}

\* the first choice of the chunk has finish_reason tool_calls or stop
IsFinishLine(chunk) == chunk.choices /\ IsFlushReason(chunk.finish_reason)

\* What the loop does for finish lines: after one that carries a delta
\* object the accumulators are empty.
C29_FinishLineWithDeltaClears ==
    Undisturbed /\ seen # <<>> /\ IsFinishLine(seen[Len(seen)])
                /\ seen[Len(seen)].delta
        => toolCallAccumulators = <<>>

\* C29: after a line whose first choice has finish_reason tool_calls or
\* stop, with or without a delta object, the accumulators are empty, and
\* every complete entry they held has been emitted.
C29_FinishLineFlushesAndClears ==
    Undisturbed =>
        /\ seen # <<>> /\ IsFinishLine(seen[Len(seen)]) => toolCallAccumulators = <<>>
        /\ \A index \in Indexes :
              Len(InputsOf(events, CallIdOf(index)))
                 = Len(ExpectedInputs(seen, <<>>, index, FALSE))

\* a finish line without a delta object has left a complete entry behind
C29_LeftInAccumulators ==
    /\ Undisturbed
    /\ seen # <<>> /\ IsFinishLine(seen[Len(seen)]) /\ ~seen[Len(seen)].delta
    /\ \E i \in 1..Len(toolCallAccumulators) : Flushable(toolCallAccumulators[i])
    /\ NumToolCalls(events) = 0

IsStopLine(chunk) == chunk.choices /\ chunk.finish_reason = "stop"

\* events ends with the text and thinking of the chunk and then tool calls
EndsWithEventsOf(chunk) ==
    \E n \in 0..Len(events) :
        /\ \A i \in (n + 1)..Len(events) : IsToolCall(events[i])
        /\ n >= Len(DeltaEvents(chunk))
        /\ SubSeq(events, n - Len(DeltaEvents(chunk)) + 1, n) = DeltaEvents(chunk)

\* What the loop does for stop lines: one that carries a delta object is the
\* last line processed, and the generator has returned after emitting its
\* text, thinking and tool calls.
C30_StopWithDeltaTerminates ==
    Undisturbed =>
        /\ \A k \in 1..(Len(seen) - 1) : ~(IsStopLine(seen[k]) /\ seen[k].delta)
        /\ seen # <<>> /\ IsStopLine(seen[Len(seen)]) /\ seen[Len(seen)].delta
              => spc = "returned" /\ EndsWithEventsOf(seen[Len(seen)])

\* C30: a line with finish_reason stop is the last line processed: the
\* generator returns after emitting the text, thinking and tool calls of
\* that line, and no later line or chunk is looked at.
C30_StopTerminates ==
    Undisturbed =>
        /\ \A k \in 1..(Len(seen) - 1) : ~IsStopLine(seen[k])
        /\ seen # <<>> /\ IsStopLine(seen[Len(seen)])
              => spc = "returned" /\ EndsWithEventsOf(seen[Len(seen)])

\* text was emitted for a line that follows a stop line
C30_EventAfterStop ==
    /\ Undisturbed
    /\ Len(seen) >= 2
    /\ IsStopLine(seen[1])
    /\ seen[2].content # <<>>
    /\ \E i \in 1..Len(events) : events[i] = TextEvent(seen[2].content)

(***************************************************************************)
(* C31.  Within one flush, the toolCall events come in the order in which  *)
(* the accumulator entries were created (the order in which their stream   *)
(* indexes were first seen since the accumulators were last cleared), not  *)
(* in ascending index and not in the order of the latest delta of each.    *)
(***************************************************************************)
RECURSIVE FirstSeen(_)
FirstSeen(deltas) ==
    IF deltas = <<>> THEN <<>>
    ELSE LET before == FirstSeen(SubSeq(deltas, 1, Len(deltas) - 1))
             index == deltas[Len(deltas)].index
         IN  IF index \in Range(before) THEN before ELSE Append(before, index)

RECURSIVE CompleteIds(_, _)
CompleteIds(deltas, order) ==
    IF order = <<>> THEN <<>>
    ELSE (IF SegmentComplete(deltas, Head(order))
          THEN <<CallIdOf(Head(order))>> ELSE <<>>)
         \o CompleteIds(deltas, Tail(order))

RECURSIVE ExpectedCallIds(_, _)
ExpectedCallIds(chunks, segment) ==
    IF chunks = <<>> THEN <<>>
    ELSE IF EndsSegment(Head(chunks), TRUE)
         THEN LET deltas == DeltasOf(Append(segment, Head(chunks)))
              IN  CompleteIds(deltas, FirstSeen(deltas))
                  \o ExpectedCallIds(Tail(chunks), <<>>)
    ELSE ExpectedCallIds(Tail(chunks), Append(segment, Head(chunks)))

RECURSIVE CallIdsIn(_)
CallIdsIn(evs) ==
    IF evs = <<>> THEN <<>>
    ELSE (IF IsToolCall(Head(evs)) THEN <<Head(evs).callId>> ELSE <<>>)
         \o CallIdsIn(Tail(evs))

C31_FlushInCreationOrder ==
    spc \notin {"abandoned", "threw"} =>
        CallIdsIn(events) = ExpectedCallIds(seen, <<>>)

\* One flush has emitted the call of index 1 before the call of index 0:
\* index 1 was created first, index 0 second, and index 1 received the
\* latest delta.
C31_Witness ==
    /\ CallIdsIn(events) = <<"b", "a">>
    /\ Len(seen) = 3
    /\ \A i \in 1..3 : Len(seen[i].tool_calls) >= 1
    /\ seen[1].tool_calls[1].index = 1
    /\ seen[2].tool_calls[1].index = 0
    /\ seen[3].tool_calls[1].index = 1
    /\ seen[3].finish_reason = "tool_calls"

(***************************************************************************)
(* C32.  A data line that is not valid JSON and an accumulator entry that  *)
(* lacks an id, a name or arguments, or whose arguments are not valid      *)
(* JSON, are dropped: the loop goes on, the chunks parsed are those of the *)
(* well-formed data lines delivered so far, in order, and the events are   *)
(* the text and thinking of every such chunk and, at every flush, the tool *)
(* calls of every complete entry.                                          *)
(***************************************************************************)
DeliveredLines ==
    LET pieces == Split(Decode(<<>>, SubSeq(stream, 1, pos)).chars)
    IN  SubSeq(pieces, 1, Len(pieces) - 1)

DataOf(line) == Trim(SubSeq(line, Len(DataPrefix) + 1, Len(line)))

RECURSIVE WellFormedChunks(_)
WellFormedChunks(lines) ==
    IF lines = <<>> THEN <<>>
    ELSE (IF /\ StartsWith(Head(lines), DataPrefix)
             /\ DataOf(Head(lines)) \notin {<<>>, DoneSentinel}
             /\ IsJSONObject(DataOf(Head(lines)))
          THEN <<JSONParseTrimmed(DataOf(Head(lines)))>> ELSE <<>>)
         \o WellFormedChunks(Tail(lines))

\* The id (which = "id") or name (which = "name") last given for an index.
RECURSIVE LastGiven(_, _, _)
LastGiven(deltas, index, which) ==
    IF deltas = <<>> THEN ""
    ELSE LET d == deltas[Len(deltas)]
         IN  IF d.index = index /\ d[which] # "" THEN d[which]
             ELSE LastGiven(SubSeq(deltas, 1, Len(deltas) - 1), index, which)

RECURSIVE CompleteCalls(_, _)
CompleteCalls(deltas, order) ==
    IF order = <<>> THEN <<>>
    ELSE (IF SegmentComplete(deltas, Head(order))
          THEN <<ToolCallEvent(LastGiven(deltas, Head(order), "id"),
                               LastGiven(deltas, Head(order), "name"),
                               ArgsValue(FragmentsFor(deltas, Head(order))))>>
          ELSE <<>>)
         \o CompleteCalls(deltas, Tail(order))

RECURSIVE ExpectedEvents(_, _)
ExpectedEvents(chunks, segment) ==
    IF chunks = <<>> THEN <<>>
    ELSE IF ~Handled(Head(chunks)) THEN ExpectedEvents(Tail(chunks), segment)
    ELSE DeltaEvents(Head(chunks))
         \o (IF EndsSegment(Head(chunks), TRUE)
             THEN LET deltas == DeltasOf(Append(segment, Head(chunks)))
                  IN  CompleteCalls(deltas, FirstSeen(deltas))
                      \o ExpectedEvents(Tail(chunks), <<>>)
             ELSE ExpectedEvents(Tail(chunks), Append(segment, Head(chunks))))

C32_MalformedDroppedLocally ==
    spc \notin {"abandoned", "threw"} =>
        /\ seen = WellFormedChunks(DeliveredLines)
        /\ events = ExpectedEvents(seen, <<>>)

\* A stream that began with a line that is not JSON has ended; one flush
\* met an entry for index 0 that was never completed and emitted the call
\* of index 1.
C32_Witness ==
    /\ spc = "done"
    /\ StartsWith(stream, EncodeText(NotJSONLine))
    /\ Len(seen) = 2
    /\ Len(seen[1].tool_calls) = 1
    /\ seen[1].tool_calls[1].index = 0
    /\ events = <<ToolCallEvent("b", "g", <<>>)>>

(***************************************************************************)
(* C33.  When the transport is exhausted the generator ends as it is: the  *)
(* tool calls it has emitted are those of the segments that a line with    *)
(* finish_reason tool_calls or stop closed; the entries accumulated since, *)
(* complete or not, are still in the accumulators, also after a line with  *)
(* finish_reason length; and the events are those of the stream without    *)
(* its unterminated last line.                                             *)
(***************************************************************************)
ClosedSegments ==
    SubSeq(seen, 1, Len(seen) - Len(OpenSegment(seen, TRUE)))

C33_NoFlushAtExhaustion ==
    spc = "done" =>
        /\ NumToolCalls(events) = NumToolCalls(ExpectedEvents(ClosedSegments, <<>>))
        /\ \A index \in Indexes :
              SegmentComplete(DeltasOf(OpenSegment(seen, TRUE)), index) =>
                  \E i \in 1..Len(toolCallAccumulators) :
                      /\ toolCallAccumulators[i].index = index
                      /\ Flushable(toolCallAccumulators[i])
        /\ events = OneShot(SubSeq(stream, 1,
                                   Len(stream) - Len(EncodeText(buffer))))

\* The stream has ended after a complete tool call, a line with
\* finish_reason length and an unterminated text line: nothing was emitted.
C33_Witness ==
    /\ spc = "done"
    /\ \E i \in 1..Len(toolCallAccumulators) : Flushable(toolCallAccumulators[i])
    /\ seen # <<>>
    /\ seen[Len(seen)].finish_reason = "length"
    /\ buffer = DataLine(<<88>>)
    /\ events = <<>>

(***************************************************************************)
(* C34.  In the initial stream the thinking fragments received since the   *)
(* previous tool-call event are concatenated; the next tool-call event,    *)
(* intercepted or reported, stores the concatenation under the key         *)
(* 'toolCall_' + callId and empties the buffer, so the next tool-call      *)
(* event of the same flush stores nothing.                                 *)
(***************************************************************************)
\* The thinking received between the last tool call before position i
\* (or the start of the stream) and position i.
RECURSIVE ThinkingBefore(_, _)
ThinkingBefore(evs, i) ==
    IF i = 1 \/ IsToolCall(evs[i - 1]) THEN <<>>
    ELSE ThinkingBefore(evs, i - 1)
         \o (IF evs[i - 1].type = "thinking" THEN evs[i - 1].content ELSE <<>>)

\* The tracker as the call found it, after the clearing of a new turn.
AtCallStart == requests[1].store

C34_ThinkingStoredAtNextToolCall ==
    pc \in {"streaming", "followup", "done"} =>
        /\ call.currentThinkingTokens
              = ThinkingBefore(taken.initial, Len(taken.initial) + 1)
        /\ \A i \in 1..Len(taken.initial) :
              IsToolCall(taken.initial[i]) =>
                  StoreGet(tokens, ToolCallKey(taken.initial[i].callId))
                      = IF ThinkingBefore(taken.initial, i) # <<>>
                        THEN ThinkingBefore(taken.initial, i)
                        ELSE StoreGet(AtCallStart,
                                      ToolCallKey(taken.initial[i].callId))

\* Thinking, then an intercepted rule call and a reported call with no
\* event between them: the first has the text, the second has no entry.
C34_Witness ==
    /\ pc = "streaming"
    /\ Len(taken.initial) = 3 /\ rulesTool
    /\ taken.initial[1].type = "thinking"
    /\ taken.initial[2].name = CURSOR_RULES_TOOL_NAME
    /\ taken.initial[3].callId = "c1"
    /\ StoreGet(tokens, ToolCallKey("r1")) = <<82>>
    /\ ToolCallKey("c1") \notin DOMAIN tokens

(***************************************************************************)
(* C35.  When thinking precedes a flush that holds both an intercepted     *)
(* rule-tool call and a tool call reported to the caller, getForMessage    *)
(* returns that thinking for the assistant message built from the reported *)
(* call, and the request that brings the call's result carries it as       *)
(* reasoning_content.  The loop stores the thinking under the first call   *)
(* of the flush only: when that is the rule call, C35_AsClaimed fails;     *)
(* when it is the reported call, C35_ReportedFirstAttached holds.          *)
(***************************************************************************)
\* Position i starts a flush, preceded by thinking, whose first two calls
\* are `first` and `second`.
FlushAfterThinking(evs, i, first, second) ==
    /\ i + 1 <= Len(evs)
    /\ ThinkingBefore(evs, i) # <<>>
    /\ evs[i] = first
    /\ evs[i + 1] = second

ReportedCall == ToolCallEvent("c1", "t", <<107>>)
RuleCall == ToolCallEvent("r1", CURSOR_RULES_TOOL_NAME, <<114>>)

\* The second call is under way: the editor has sent the result of "c1".
ContinuationOfC1 ==
    /\ pc \in {"streaming", "followup", "done"}
    /\ nCalls = 2
    /\ rulesTool

ReasoningOfRequest(i) ==
    IF Len(requests[i].wire) >= 2 THEN requests[i].wire[2].reasoning_content
    ELSE <<>>

C35_ReportedFirstAttached ==
    ContinuationOfC1 =>
        \A i \in 1..Len(taken.previous) :
            FlushAfterThinking(taken.previous, i, ReportedCall, RuleCall) =>
                /\ GetForMessage(AtCallStart, AssistantCalls("c1"))
                      = ThinkingBefore(taken.previous, i)
                /\ ReasoningOfRequest(1) = ThinkingBefore(taken.previous, i)

C35_AsClaimed ==
    ContinuationOfC1 =>
        \A i \in 1..Len(taken.previous) :
            \/ FlushAfterThinking(taken.previous, i, ReportedCall, RuleCall)
            \/ FlushAfterThinking(taken.previous, i, RuleCall, ReportedCall)
            => /\ GetForMessage(AtCallStart, AssistantCalls("c1"))
                      = ThinkingBefore(taken.previous, i)
               /\ ReasoningOfRequest(1) = ThinkingBefore(taken.previous, i)

\* The first call took thinking, the rule call and then "c1"; the request
\* with the result of "c1" carries no reasoning.
C35_ThinkingLeftWithRuleCall ==
    /\ ContinuationOfC1
    /\ FlushAfterThinking(taken.previous, 2, RuleCall, ReportedCall)
    /\ StoreGet(AtCallStart, ToolCallKey("r1")) = <<82>>
    /\ ~HasReasoning(requests[1].wire)

(***************************************************************************)
(* C36.  getForMessage returns the value stored for the first tool-call    *)
(* part of the message, in content order, that has a stored value, and no  *)
(* value when the message has no tool-call part or none of its tool-call   *)
(* parts has one.  C36_AsClaimed, which looks at the first tool-call part  *)
(* only, fails for a message whose second tool-call part has the entry.    *)
(***************************************************************************)
CallsOfLookup == SelectParts(lookup.msg.content, "toolCall")

HasEntry(part) == ToolCallKey(part.callId) \in DOMAIN lookup.store

C36_FirstStoredEntry ==
    lookup.pc = "returned" =>
        LET with == {i \in 1..Len(CallsOfLookup) : HasEntry(CallsOfLookup[i])}
        IN  IF with = {} THEN lookup.result = Undefined
            ELSE \E i \in with :
                    /\ \A j \in with : i <= j
                    /\ lookup.result
                          = lookup.store[ToolCallKey(CallsOfLookup[i].callId)]

C36_AsClaimed ==
    lookup.pc = "returned" =>
        IF CallsOfLookup = <<>> \/ ~HasEntry(CallsOfLookup[1])
        THEN lookup.result = Undefined
        ELSE lookup.result = lookup.store[ToolCallKey(CallsOfLookup[1].callId)]

\* Text, then the call "c1" without an entry, then the call "c2" with one:
\* the result is the entry of "c2".
C36_Witness ==
    /\ lookup.pc = "returned"
    /\ lookup.msg.content = <<TextPart(<<97>>), ToolCallPart("c1", "t", <<107>>),
                              ToolCallPart("c2", "t", <<107>>)>>
    /\ DOMAIN lookup.store = {ToolCallKey("c2")}
    /\ lookup.result = <<82>>

(***************************************************************************)
(* C37.  The follow-up stream leaves the thinking-token store as the       *)
(* initial stream left it: while it runs the store is the one the          *)
(* follow-up request was built with; its thinking is neither reported nor  *)
(* stored, and its tool calls get no entry.  What the call stores after    *)
(* the follow-up is the thinking the initial stream left in its buffer.    *)
(***************************************************************************)
AtFollowUp == requests[2].store

C37_FollowUpLeavesStore ==
    (pc \in {"followup", "done"} /\ Len(requests) = 2) =>
        /\ pc = "followup" => tokens = AtFollowUp
        /\ \A k \in DOMAIN tokens :
              /\ FollowUpThought[1] \notin Range(tokens[k])
              /\ k.kind = "toolCall" =>
                    k \in DOMAIN AtFollowUp /\ tokens[k] = AtFollowUp[k]
        /\ \A i \in 1..Len(reported) :
              FollowUpThought[1] \notin Range(reported[i].value)

\* The follow-up stream has yielded thinking and the tool call "c2" and has
\* ended: "c2" was reported and has no entry, the entry of the rule call
\* of the initial stream is as it was.
C37_Witness ==
    /\ pc = "done"
    /\ taken.followup = <<ThinkingEvent(FollowUpThought),
                           ToolCallEvent("c2", "t", <<107>>)>>
    /\ reported[Len(reported)] = ToolCallPart("c2", "t", <<107>>)
    /\ ToolCallKey("c2") \notin DOMAIN tokens
    /\ StoreGet(tokens, ToolCallKey("r1")) = <<82>>

(***************************************************************************)
(* C38.  When rule-tool calls were intercepted and the initial stream ran  *)
(* to its end, what is reported is the reports of the initial stream, then *)
(* the assistant statement, then the concatenated rule contents, then the  *)
(* reports of the follow-up stream; and the history of the follow-up       *)
(* request is the original history followed by an assistant message and a  *)
(* user message with these two texts.  C38_AsClaimed asks for the two      *)
(* texts after every interception and fails when the stream throws.        *)
(***************************************************************************)
RECURSIVE Passed(_, _)
Passed(evs, initial) ==
    IF evs = <<>> THEN <<>>
    ELSE (IF Head(evs).type = "text" THEN <<TextPart(Head(evs).content)>>
          ELSE IF /\ IsToolCall(Head(evs))
                  /\ ~(initial /\ Head(evs).name = CURSOR_RULES_TOOL_NAME)
               THEN <<ToolCallPart(Head(evs).callId, Head(evs).name,
                                   Head(evs).input)>>
          ELSE <<>>) \o Passed(Tail(evs), initial)

Synthesized ==
    <<TextPart(AssistantText(call.cursorRulesToolCalls)),
      TextPart(UserText(call.cursorRulesToolCalls))>>

Intercepted == pc # "idle" /\ call.cursorRulesToolCalls # <<>>

C38_SynthesizedTextsInOrder ==
    (Intercepted /\ call.streamEnded /\ pc \in {"followup", "done"}) =>
        /\ reported = Passed(taken.initial, TRUE) \o Synthesized
                          \o Passed(taken.followup, FALSE)
        /\ Len(requests) = 2
        /\ requests[2].messages =
              call.messages
                  \o <<Message("assistant", <<Synthesized[1]>>),
                       Message("user", <<Synthesized[2]>>)>>

C38_AsClaimed ==
    (Intercepted /\ pc \in {"done", "failed"}) =>
        \E k \in 1..(Len(reported) - 1) :
            reported[k] = Synthesized[1] /\ reported[k + 1] = Synthesized[2]

\* The initial stream yielded the rule call, text and the call "c1", the
\* follow-up stream yielded text: five parts were reported, the synthesized
\* texts third and fourth.
C38_Witness ==
    /\ pc = "done"
    /\ taken.initial = <<RuleCall, TextEvent(<<88>>), ReportedCall>>
    /\ taken.followup = <<TextEvent(<<88>>)>>
    /\ Len(reported) = 5
    /\ SubSeq(reported, 3, 4) = Synthesized


(***************************************************************************)
(* C39: every tool-call part and every tool-result part of the input       *)
(* history appears in the wire messages, as a tool_calls entry with its    *)
(* call id or as a role "tool" message with its call id, whatever the      *)
(* role of the message that carries it.  The code keeps tool calls only    *)
(* of assistant messages, and tool results only of user messages that are  *)
(* not taken by the tool-call branch: this formula is violated.            *)
(***************************************************************************)
CarriedAsToolCall(wire, part) ==
    \E i \in 1..Len(wire) :
       \E j \in 1..Len(wire[i].tool_calls) :
          /\ wire[i].tool_calls[j].id = part.callId
          /\ wire[i].tool_calls[j].name = part.name

CarriedAsToolMessage(wire, part) ==
    \E i \in 1..Len(wire) :
       /\ wire[i].role = "tool"
       /\ wire[i].tool_call_id = part.callId

C39_AsClaimed ==
    conversion.pc = "wire" =>
       \A m \in 1..Len(conversion.messages) :
          \A p \in 1..Len(conversion.messages[m].content) :
             LET part == conversion.messages[m].content[p]
             IN /\ part.kind = "toolCall" =>
                      CarriedAsToolCall(conversion.wire, part)
                /\ part.kind = "toolResult" =>
                      CarriedAsToolMessage(conversion.wire, part)

\* what the code does carry: the tool calls of an assistant message, and the
\* tool results of a user message
C39_CarriedInOwnRole ==
    conversion.pc = "wire" =>
       \A m \in 1..Len(conversion.messages) :
          LET msg == conversion.messages[m]
          IN \A p \in 1..Len(msg.content) :
                /\ (msg.content[p].kind = "toolCall" /\ msg.role = "assistant")
                      => CarriedAsToolCall(conversion.wire, msg.content[p])
                /\ (msg.content[p].kind = "toolResult" /\ msg.role = "user")
                      => CarriedAsToolMessage(conversion.wire, msg.content[p])

\* a user message that carries a tool-call part has been converted
C39_ToolCallInUserMessage ==
    /\ conversion.pc = "wire"
    /\ \E m \in 1..Len(conversion.messages) :
          /\ conversion.messages[m].role = "user"
          /\ \E p \in 1..Len(conversion.messages[m].content) :
                conversion.messages[m].content[p].kind = "toolCall"


(***************************************************************************)
(* C40: normalizeEndpointUrl is idempotent: normalizing a normalized URL   *)
(* returns it unchanged, and a normalized URL ends neither with "/" nor    *)
(* with "/v1".  The two tests run once and in a fixed order, so "h/v1/"    *)
(* becomes "h/v1" and a second pass gives "h": this formula is violated.   *)
(***************************************************************************)
C40_AsClaimed ==
    /\ endpoint.pc = "twice" => endpoint.twice = endpoint.once
    /\ endpoint.pc \in {"once", "twice"} =>
          /\ ~EndsWith(endpoint.once, <<SLASH>>)
          /\ ~EndsWith(endpoint.once, V1Suffix)

\* what one pass does guarantee: the result is the trimmed URL with 0, 1, 3
\* or 4 characters cut from its end, and a trimmed URL that ends neither
\* with "/" nor with "/v1" is returned as it is
C40_CutsOneEnding ==
    endpoint.pc \in {"once", "twice"} =>
       LET trimmed == Trim(endpoint.url)
       IN /\ \E n \in {0, 1, 3, 4} :
                /\ n <= Len(trimmed)
                /\ endpoint.once = SliceOff(trimmed, n)
          /\ (~EndsWith(trimmed, <<SLASH>>) /\ ~EndsWith(trimmed, V1Suffix))
                => endpoint.once = trimmed

\* a URL that ends with "/v1/" has been normalized twice
C40_SlashAfterV1 ==
    /\ endpoint.pc = "twice"
    /\ EndsWith(Trim(endpoint.url), V1Suffix \o <<SLASH>>)
    /\ Len(Trim(endpoint.url)) > 4

====
